---- MODULE Spec2Model ----
(***************************************************************************)
(* Model of bench/takbench.py: the worker-session driver                   *)
(* (drive_worker_session), the tmux transport helpers it calls and the     *)
(* part of main() that wraps the driver (pane capture, session kill).      *)
(*                                                                         *)
(* Time is an integer clock (time.time()).  The agent is an independent    *)
(* process: its pane may die at any moment (PaneExits) and the transcript  *)
(* it writes is re-read from scratch by every poll.                        *)
(***************************************************************************)
EXTENDS Integers, Sequences, FiniteSets, TLC

(* ------------------------------ bounds -------------------------------- *)
\* largest change.min / change.target value drawn for a run
MaxChangeSeconds == 1
\* largest time budget drawn for a run
MaxBudgetSeconds == 2
\* largest public probe interval drawn for a run
MaxProbeInterval == 2
\* longest time one probe execution takes
MaxProbeDuration == 1
\* objective.poll_interval_seconds of the run
PollIntervalSeconds == 1
\* largest worker.ready_timeout_seconds / ready_delay_seconds drawn
MaxReadySeconds == 1
\* largest absolute value of a weight the manifest's scoring section sets
MaxWeight == 1
\* largest number of commits after the baseline
MaxCommits == 5
\* largest number of manual-edit evidence lines in the transcript
MaxManualLines == 4

Max(a, b) == IF a >= b THEN a ELSE b

(* ------------------------- program constants -------------------------- *)
\* time.sleep(max(1, objective.poll_interval_seconds)): the shortest sleep
\* between two turns of the main loop
MinPollSleep == 1
PollSleep == Max(MinPollSleep, PollIntervalSeconds)
\* time.sleep(1) between two reads of the transcript in wait_for_worker_ready
ReadyPollSleep == 1
\* time.sleep(1) in main() before the pane is captured
FlushSleep == 1

VARIABLES
    pc,                    \* position of the control flow of main()/drive_worker_session
    clock,                 \* time.time()
    pane,                  \* the agent pane: "alive", "dead" (kept by tmux) or "gone"
    worker_text,           \* tokens found in the transcript by the last read, kept
                           \* until the step after the one that looked at them
    commands_log,          \* commands.jsonl, one record per line
    tmux_step,             \* tmux commands run by the last step, with their outcome
    raised,                \* a RuntimeError is propagating out of the driver
    transport,             \* objective.worker_prompt_transport
    ready_strategy,        \* objective.worker_ready_strategy
    ready_started,         \* wait_for_worker_ready: started
    ready_deadline,        \* wait_for_worker_ready: deadline of the token poll
    ready_state,           \* result of wait_for_worker_ready ({} until it returns)
    start_epoch,
    min_change_seconds,
    target_change_seconds,
    budget_seconds,
    probe_interval,        \* objective.public_probe_interval_seconds
    next_public_probe_at,
    now,
    elapsed,
    change_injected,
    change_injected_epoch, \* -1 stands for None
    phase1_done_seen,
    final_done_seen,
    public_probe_pass,
    probe_results,
    end_reason,
    probe_running,         \* exec_shell of the public test command has not returned yet
    iter_probes,           \* probes started in the current loop iteration
    last_probe_now,        \* `now` of the iteration that ran the last probe (-1: none)
    change_sends,          \* times the change prompt was pasted into the pane
    session_result,        \* the dict drive_worker_session returns ({} until then)
    session_killed,        \* kill_session was run
    score_in,              \* the arguments main() has collected for run_scoring ({} until then)
    score_report,          \* the ScoreReport run_scoring returned ({} until then)
    task_files,            \* load_tasks: the sorted *.json files of .tak/tasks, by content
    task_index,            \* load_tasks: files the scan has consumed
    tasks,                 \* load_tasks: the tasks list
    normalization_issues,  \* load_tasks: the normalization_issues list
    git_in,                \* collect_git_metrics: the commits of baseline..HEAD, oldest
                           \* first, and change_epoch
    git_metrics,           \* the dict collect_git_metrics returned ({} until then)
    report_in,             \* what main() has collected for the validity checks ({} until then)
    report,                \* the report main() wrote to report.json ({} until then)
    return_code,           \* the value main() returned (-1 until then)
    keep_tmux_session,     \* args.keep_tmux_session, once main() has read it ({} until then)
    hidden_config          \* objective.hidden_tests_required, objective.hidden_test_command,
                           \* args.hidden_test_cmd and args.allow_missing_hidden_tests

vars == << pc, clock, pane, worker_text, commands_log, tmux_step, raised, transport,
           ready_strategy, ready_started, ready_deadline, ready_state, start_epoch,
           min_change_seconds, target_change_seconds, budget_seconds, probe_interval,
           next_public_probe_at, now, elapsed, change_injected,
           change_injected_epoch, phase1_done_seen, final_done_seen, public_probe_pass,
           probe_results, end_reason, probe_running, iter_probes, last_probe_now,
           change_sends, session_result, session_killed, score_in, score_report,
           task_files, task_index, tasks, normalization_issues, git_in,
           git_metrics, report_in, report, return_code, keep_tmux_session,
           hidden_config >>

\* variables of the scoring step of main()
score_vars == << score_in, score_report >>

\* variables of load_tasks
tasks_vars == << task_files, task_index, tasks, normalization_issues >>

\* variables of collect_git_metrics
git_vars == << git_in, git_metrics >>

\* variables of the report step of main()
report_vars == << report_in, report, return_code >>

\* variables of everything main() does after the driver has returned
analysis_vars == << tasks_vars, git_vars, report_vars >>

\* load_tasks has not been called
TasksIdle ==
    /\ task_files = << >>
    /\ task_index = 0
    /\ tasks = << >>
    /\ normalization_issues = << >>

\* collect_git_metrics has not been called
GitIdle ==
    /\ git_in = [commits |-> << >>, change_epoch |-> {}]
    /\ git_metrics = {}

\* main() has not reached its validity checks
ReportIdle ==
    /\ report_in = {}
    /\ report = {}
    /\ return_code = -1

\* variables of the main loop of drive_worker_session
loop_vars == << start_epoch, min_change_seconds, target_change_seconds, budget_seconds,
                probe_interval, next_public_probe_at, now, elapsed,
                change_injected, change_injected_epoch, phase1_done_seen,
                final_done_seen, public_probe_pass, probe_results, end_reason,
                probe_running, iter_probes, last_probe_now, change_sends >>

\* variables of the readiness wait and the configuration read before the loop
ready_vars == << transport, ready_strategy, ready_started, ready_deadline, ready_state >>

None == "None"

(* --------------------------- tmux transport ---------------------------- *)
\* tmux commands that name the pane with -t; load-buffer and kill-session do not
TargetsPane(cmd) == cmd \in {"send_line", "send_enter", "paste_buffer",
                             "pane_dead_query", "capture_pane"}

\* run_cmd of one tmux command: it fails when its target pane no longer exists;
\* any command may also fail for a reason of its own
TmuxOutcomes(cmd) == IF TargetsPane(cmd) /\ pane = "gone" THEN {FALSE} ELSE {TRUE, FALSE}

\* ensure_success after each command: the commands of a helper run in order
\* and the first failing one raises, so a run is a prefix of successes
\* followed by at most one failure
TmuxRuns(cmds) ==
    { r \in UNION { [1..n -> [cmd : {cmds[i] : i \in 1..Len(cmds)}, ok : BOOLEAN]]
                    : n \in 1..Len(cmds) } :
        /\ \A i \in DOMAIN r : r[i].cmd = cmds[i] /\ r[i].ok \in TmuxOutcomes(cmds[i])
        /\ \A i \in DOMAIN r : (i < Len(r)) => r[i].ok
        /\ (Len(r) < Len(cmds)) => ~r[Len(r)].ok }

RunOkUnchecked(r) == TRUE

\* no ensure_success of the helper raised
RunOk(r) == \A i \in DOMAIN r : r[i].ok

tmux_send_line_cmds == << "send_line", "send_enter" >>

tmux_send_prompt_cmds == << "load_buffer", "paste_buffer", "send_enter" >>

Event(type) == [type |-> type]

write_jsonl(log, payload) == << payload >>

\* append_jsonl(path, payload): the file is opened in mode "a" and one line
\* is written at its end
append_jsonl(log, payload) == Append(log, payload)

\* tmux_send_line(pane_target, line, commands_log, event_type) followed by a
\* jump to `next`; a failing command raises out of drive_worker_session
TmuxSendLine(event_type, next) ==
    \E r \in TmuxRuns(tmux_send_line_cmds) :
        /\ tmux_step' = r
        /\ IF RunOk(r)
             THEN /\ commands_log' = append_jsonl(commands_log, Event(event_type))
                  /\ pc' = next
                  /\ raised' = FALSE
             ELSE /\ commands_log' = commands_log
                  /\ pc' = "finally"
                  /\ raised' = TRUE

\* the hidden-test settings of a run: the objective's flag and command (stripped
\* when the objective was loaded), --hidden-test-cmd as typed and
\* --allow-missing-hidden-tests; commands are sequences of "_" (whitespace) and
\* other characters
HiddenConfig(required, override, command, allow) ==
    [hidden_tests_required |-> required, hidden_test_cmd |-> override,
     hidden_test_command |-> command, allow_missing_hidden_tests |-> allow]

\* an objective that requires no hidden tests and names no hidden command
NoHiddenTests == HiddenConfig(FALSE, << >>, << >>, FALSE)

\* str.strip() on a command line
RECURSIVE strip_cmd(_)
strip_cmd(line) ==
    IF line = << >> THEN << >>
    ELSE IF Head(line) = "_" THEN strip_cmd(Tail(line))
    ELSE IF line[Len(line)] = "_" THEN strip_cmd(SubSeq(line, 1, Len(line) - 1))
    ELSE line

\* hidden_cmd_override or objective.hidden_test_command, with
\* hidden_cmd_override = args.hidden_test_cmd.strip() or None
effective_hidden_cmd(config) ==
    IF strip_cmd(config.hidden_test_cmd) # << >>
      THEN strip_cmd(config.hidden_test_cmd)
      ELSE config.hidden_test_command

hidden_command_never_missing(config) == FALSE

\* objective.hidden_tests_required and not effective_hidden_cmd
\* and not args.allow_missing_hidden_tests
hidden_command_missing(config) ==
    /\ config.hidden_tests_required
    /\ effective_hidden_cmd(config) = << >>
    /\ ~config.allow_missing_hidden_tests

(* ------------------------------- Init ---------------------------------- *)
Init ==
    /\ pc = "setup1"
    /\ clock = 0
    /\ pane = "alive"
    /\ worker_text = {}
    /\ commands_log = << >>
    /\ tmux_step = << >>
    /\ raised = FALSE
    /\ transport = None
    /\ ready_strategy = None
    /\ ready_started = 0
    /\ ready_deadline = 0
    /\ ready_state = {}
    /\ start_epoch = 0
    /\ min_change_seconds = 0
    /\ target_change_seconds = 0
    /\ budget_seconds = 0
    /\ probe_interval = 0
    /\ next_public_probe_at = 0
    /\ now = 0
    /\ elapsed = 0
    /\ change_injected = FALSE
    /\ change_injected_epoch = -1
    /\ phase1_done_seen = FALSE
    /\ final_done_seen = FALSE
    /\ public_probe_pass = FALSE
    /\ probe_results = << >>
    /\ end_reason = None
    /\ probe_running = FALSE
    /\ iter_probes = 0
    /\ last_probe_now = -1
    /\ change_sends = 0
    /\ session_result = {}
    /\ session_killed = FALSE
    /\ keep_tmux_session = {}
    /\ hidden_config = NoHiddenTests
    /\ score_in = {}
    /\ score_report = {}
    /\ TasksIdle
    /\ GitIdle
    /\ ReportIdle

(* ------------------------ the agent (environment) ---------------------- *)
\* the agent process exits while the driver runs: tmux keeps the pane as dead
\* (remain-on-exit) or destroys it.  After the driver has left, the outcomes of
\* capture-pane and kill-session cover whatever happens to the pane.
PaneExits ==
    /\ pane = "alive"
    /\ pc \notin {"capture", "finally", "post_run", "exit_error"}
    /\ pane' \in {"dead", "gone"}
    /\ UNCHANGED << pc, clock, worker_text, commands_log, tmux_step, raised,
                    session_result, session_killed >>
    /\ UNCHANGED ready_vars
    /\ UNCHANGED loop_vars
    /\ UNCHANGED score_vars
    /\ UNCHANGED << keep_tmux_session, hidden_config >>
    /\ UNCHANGED analysis_vars

(* --------------------- drive_worker_session: set-up -------------------- *)
SetupPcs == {"setup1", "setup2", "setup3"}

NextSetupOfTwo(p) == CASE p = "setup1" -> "setup2"
                       [] p = "setup2" -> "check_transport"
                       [] p = "setup3" -> "check_transport"

NextSetup(p) == CASE p = "setup1" -> "setup2"
                  [] p = "setup2" -> "setup3"
                  [] p = "setup3" -> "check_transport"

\* the three tmux_send_line(..., "setup") calls
SetupLine ==
    /\ pc \in SetupPcs
    /\ TmuxSendLine("setup", NextSetup(pc))
    /\ UNCHANGED << clock, pane, worker_text, session_result, session_killed >>
    /\ UNCHANGED ready_vars
    /\ UNCHANGED loop_vars
    /\ UNCHANGED score_vars
    /\ UNCHANGED << keep_tmux_session, hidden_config >>
    /\ UNCHANGED analysis_vars

\* the objective's prompt transport is checked after the set-up lines were sent
CheckTransport ==
    /\ pc = "check_transport"
    /\ \E t \in {"tmux_buffer_paste", "send_keys"} :
        /\ transport' = t
        /\ IF t # "tmux_buffer_paste"
             THEN pc' = "finally" /\ raised' = TRUE
             ELSE pc' = "worker_start" /\ raised' = FALSE
    /\ tmux_step' = << >>
    /\ UNCHANGED << clock, pane, worker_text, commands_log, session_result, session_killed,
                    ready_strategy, ready_started, ready_deadline, ready_state >>
    /\ UNCHANGED loop_vars
    /\ UNCHANGED score_vars
    /\ UNCHANGED << keep_tmux_session, hidden_config >>
    /\ UNCHANGED analysis_vars

WorkerStart ==
    /\ pc = "worker_start"
    /\ TmuxSendLine("worker_start", "ready_begin")
    /\ UNCHANGED << clock, pane, worker_text, session_result, session_killed >>
    /\ UNCHANGED ready_vars
    /\ UNCHANGED loop_vars
    /\ UNCHANGED score_vars
    /\ UNCHANGED << keep_tmux_session, hidden_config >>
    /\ UNCHANGED analysis_vars

(* ------------------------ wait_for_worker_ready ------------------------ *)
ReadyStateAlwaysReady(ready, strategy, reason) ==
    [ready |-> TRUE, strategy |-> strategy, reason |-> "ready_token_seen"]

ReadyState(ready, strategy, reason) ==
    [ready |-> ready, strategy |-> strategy, reason |-> reason]

\* entry of wait_for_worker_ready: strategies none and delay return from here,
\* strategy token computes its deadline and starts polling
ReadyBegin ==
    /\ pc = "ready_begin"
    /\ ready_started' = clock
    /\ \/ /\ ready_strategy' = "none"
          /\ ready_state' = {ReadyState(TRUE, "none", "no_wait")}
          /\ clock' = clock
          /\ ready_deadline' = ready_deadline
          /\ pc' = "log_ready"
       \/ /\ ready_strategy' = "delay"
          /\ \E delay_seconds \in 0..MaxReadySeconds :
                /\ clock' = clock + Max(0, delay_seconds)
                /\ ready_state' = {ReadyState(TRUE, "delay", "delay_elapsed")}
          /\ ready_deadline' = ready_deadline
          /\ pc' = "log_ready"
       \/ /\ ready_strategy' = "token"
          /\ \E timeout_seconds \in 1..MaxReadySeconds :
                ready_deadline' = clock + Max(1, timeout_seconds)
          /\ clock' = clock
          /\ ready_state' = ready_state
          /\ pc' = "ready_poll"
    /\ tmux_step' = << >>
    /\ UNCHANGED << pane, worker_text, commands_log, raised, transport, session_result,
                    session_killed >>
    /\ UNCHANGED loop_vars
    /\ UNCHANGED score_vars
    /\ UNCHANGED << keep_tmux_session, hidden_config >>
    /\ UNCHANGED analysis_vars

\* one turn of the token poll: while time.time() < deadline
ReadyPoll ==
    /\ pc = "ready_poll"
    /\ IF clock < ready_deadline
         THEN \E text \in SUBSET {"ready"} :
                /\ worker_text' = text
                /\ IF "ready" \in text
                     THEN /\ ready_state' = {ReadyState(TRUE, "token", "ready_token_seen")}
                          /\ pc' = "log_ready"
                          /\ clock' = clock
                     ELSE /\ ready_state' = ready_state
                          /\ pc' = pc
                          /\ clock' = clock + ReadyPollSleep
         ELSE /\ ready_state' = {ReadyState(FALSE, "token", "ready_token_timeout")}
              /\ pc' = "log_ready"
              /\ UNCHANGED << clock, worker_text >>
    /\ tmux_step' = << >>
    /\ UNCHANGED << pane, commands_log, raised, transport, ready_strategy, ready_started,
                    ready_deadline, session_result, session_killed >>
    /\ UNCHANGED loop_vars
    /\ UNCHANGED score_vars
    /\ UNCHANGED << keep_tmux_session, hidden_config >>
    /\ UNCHANGED analysis_vars

\* the worker_ready event is appended whatever the readiness outcome; the
\* locals of wait_for_worker_ready are gone
LogReady ==
    /\ pc = "log_ready"
    /\ commands_log' = append_jsonl(commands_log, Event("worker_ready"))
    /\ pc' = "initial_prompt"
    /\ tmux_step' = << >>
    /\ ready_started' = 0
    /\ ready_deadline' = 0
    /\ worker_text' = {}
    /\ UNCHANGED << clock, pane, raised, session_result, session_killed, transport,
                    ready_strategy, ready_state >>
    /\ UNCHANGED loop_vars
    /\ UNCHANGED score_vars
    /\ UNCHANGED << keep_tmux_session, hidden_config >>
    /\ UNCHANGED analysis_vars

InitialPrompt ==
    /\ pc = "initial_prompt"
    /\ \E r \in TmuxRuns(tmux_send_prompt_cmds) :
        /\ tmux_step' = r
        /\ IF RunOk(r)
             THEN /\ commands_log' = append_jsonl(commands_log, Event("initial_prompt"))
                  /\ pc' = "start_loop"
                  /\ raised' = FALSE
             ELSE /\ commands_log' = commands_log
                  /\ pc' = "finally"
                  /\ raised' = TRUE
    /\ UNCHANGED << clock, pane, worker_text, session_result, session_killed >>
    /\ UNCHANGED ready_vars
    /\ UNCHANGED loop_vars
    /\ UNCHANGED score_vars
    /\ UNCHANGED << keep_tmux_session, hidden_config >>
    /\ UNCHANGED analysis_vars

(* -------------------- drive_worker_session: main loop ------------------ *)
\* drive_worker_session is left, by return or by an exception: the locals of
\* its main loop no longer exist
LocalsGone ==
    /\ worker_text' = {}
    /\ start_epoch' = 0
    /\ min_change_seconds' = 0
    /\ target_change_seconds' = 0
    /\ budget_seconds' = 0
    /\ probe_interval' = 0
    /\ next_public_probe_at' = 0
    /\ now' = 0
    /\ elapsed' = 0
    /\ change_injected' = FALSE
    /\ change_injected_epoch' = -1
    /\ phase1_done_seen' = FALSE
    /\ final_done_seen' = FALSE
    /\ public_probe_pass' = FALSE
    /\ probe_results' = << >>
    /\ end_reason' = None
    /\ iter_probes' = 0
    /\ last_probe_now' = -1

\* the timing parameters are read from the objective and the loop state is
\* initialised
StartLoop ==
    /\ pc = "start_loop"
    /\ start_epoch' = clock
    /\ min_change_seconds' \in 0..MaxChangeSeconds
    /\ target_change_seconds' \in 0..MaxChangeSeconds
    /\ budget_seconds' \in 1..MaxBudgetSeconds
    /\ probe_interval' \in 1..MaxProbeInterval
    /\ next_public_probe_at' = clock + probe_interval'
    /\ change_injected' = FALSE
    /\ change_injected_epoch' = -1
    /\ phase1_done_seen' = FALSE
    /\ final_done_seen' = FALSE
    /\ public_probe_pass' = FALSE
    /\ probe_results' = << >>
    /\ end_reason' = "timeout"
    /\ pc' = "loop_top"
    /\ tmux_step' = << >>
    /\ UNCHANGED << clock, pane, worker_text, commands_log, raised, session_result,
                    session_killed, now, elapsed, probe_running, iter_probes,
                    last_probe_now, change_sends >>
    /\ UNCHANGED ready_vars
    /\ UNCHANGED score_vars
    /\ UNCHANGED << keep_tmux_session, hidden_config >>
    /\ UNCHANGED analysis_vars

Tokens == {"phase1", "final"}

\* if token in worker_text: flag = True
DoneSeenLost(flag, token, text) == token \in text

DoneSeen(flag, token, text) == IF token \in text THEN TRUE ELSE flag

\* top of an iteration: now, elapsed, the transcript read and the two done flags
LoopTop ==
    /\ pc = "loop_top"
    /\ now' = clock
    /\ elapsed' = clock - start_epoch
    /\ \E text \in SUBSET Tokens :
        /\ worker_text' = text
        /\ phase1_done_seen' = DoneSeen(phase1_done_seen, "phase1", text)
        /\ final_done_seen' = DoneSeen(final_done_seen, "final", text)
    /\ iter_probes' = 0
    /\ pc' = "probe_check"
    /\ tmux_step' = << >>
    /\ UNCHANGED << clock, pane, commands_log, raised, session_result, session_killed,
                    start_epoch, min_change_seconds, target_change_seconds,
                    budget_seconds, probe_interval,
                    next_public_probe_at, change_injected, change_injected_epoch,
                    public_probe_pass, probe_results, end_reason, probe_running,
                    last_probe_now, change_sends >>
    /\ UNCHANGED ready_vars
    /\ UNCHANGED score_vars
    /\ UNCHANGED << keep_tmux_session, hidden_config >>
    /\ UNCHANGED analysis_vars

ProbeDue == now >= next_public_probe_at

ProbeStartDetached ==
    /\ pc = "probe_check"
    /\ ProbeDue
    /\ probe_running' = TRUE
    /\ iter_probes' = iter_probes + 1
    /\ pc' = "change"
    /\ tmux_step' = << >>
    /\ worker_text' = {}
    /\ UNCHANGED << clock, pane, commands_log, raised, session_result,
                    session_killed, start_epoch, min_change_seconds,
                    target_change_seconds, budget_seconds, probe_interval,
                    next_public_probe_at, now, elapsed,
                    change_injected, change_injected_epoch, phase1_done_seen,
                    final_done_seen, public_probe_pass, probe_results, end_reason,
                    last_probe_now, change_sends >>
    /\ UNCHANGED ready_vars
    /\ UNCHANGED score_vars
    /\ UNCHANGED << keep_tmux_session, hidden_config >>
    /\ UNCHANGED analysis_vars

\* exec_shell(public_test_command) is entered: the driver blocks in it
ProbeStart ==
    /\ pc = "probe_check"
    /\ ProbeDue
    /\ probe_running' = TRUE
    /\ iter_probes' = iter_probes + 1
    /\ pc' = "probe_wait"
    /\ tmux_step' = << >>
    /\ worker_text' = {}
    /\ UNCHANGED << clock, pane, commands_log, raised, session_result,
                    session_killed, start_epoch, min_change_seconds,
                    target_change_seconds, budget_seconds, probe_interval,
                    next_public_probe_at, now, elapsed,
                    change_injected, change_injected_epoch, phase1_done_seen,
                    final_done_seen, public_probe_pass, probe_results, end_reason,
                    last_probe_now, change_sends >>
    /\ UNCHANGED ready_vars
    /\ UNCHANGED score_vars
    /\ UNCHANGED << keep_tmux_session, hidden_config >>
    /\ UNCHANGED analysis_vars

ProbeSkip ==
    /\ pc = "probe_check"
    /\ ~ProbeDue
    /\ pc' = "change"
    /\ tmux_step' = << >>
    /\ worker_text' = {}
    /\ UNCHANGED << clock, pane, commands_log, raised, session_result,
                    session_killed >>
    /\ UNCHANGED ready_vars
    /\ UNCHANGED loop_vars
    /\ UNCHANGED score_vars
    /\ UNCHANGED << keep_tmux_session, hidden_config >>
    /\ UNCHANGED analysis_vars

\* run_cmd: the exit code of the command, or 124 with timed_out when the
\* 180 s timeout expires
ExecResults == { [exit_code |-> 0, timed_out |-> FALSE],
                 [exit_code |-> 1, timed_out |-> FALSE],
                 [exit_code |-> 124, timed_out |-> TRUE] }

ProbePassNotFailed(result) == result.exit_code # 1

\* probe_pass = probe_result.exit_code == 0
ProbePass(result) == result.exit_code = 0

ProbeEventUnjudged(result) ==
    [type |-> "public_probe", exit_code |-> result.exit_code, passed |-> FALSE]

\* probe_event
ProbeEvent(result) == [type |-> "public_probe", exit_code |-> result.exit_code,
                       passed |-> ProbePass(result)]

NextProbeAtGrid == next_public_probe_at + probe_interval

\* next_public_probe_at = now + objective.public_probe_interval_seconds
NextProbeAt == now + probe_interval

\* exec_shell returns: the outcome is recorded and the next probe scheduled
ProbeReturn ==
    /\ pc = "probe_wait"
    /\ \E result \in ExecResults, duration \in 0..MaxProbeDuration :
        /\ clock' = clock + duration
        /\ public_probe_pass' = IF ProbePass(result) THEN TRUE ELSE public_probe_pass
        /\ probe_results' = Append(probe_results, ProbeEvent(result))
        /\ commands_log' = append_jsonl(commands_log, ProbeEvent(result))
    /\ next_public_probe_at' = NextProbeAt
    /\ last_probe_now' = now
    /\ probe_running' = FALSE
    /\ pc' = "change"
    /\ tmux_step' = << >>
    /\ UNCHANGED << pane, worker_text, raised, session_result, session_killed,
                    start_epoch, min_change_seconds, target_change_seconds,
                    budget_seconds, probe_interval, now, elapsed,
                    change_injected, change_injected_epoch, phase1_done_seen,
                    final_done_seen, end_reason, iter_probes, change_sends >>
    /\ UNCHANGED ready_vars
    /\ UNCHANGED score_vars
    /\ UNCHANGED << keep_tmux_session, hidden_config >>
    /\ UNCHANGED analysis_vars

change_trigger_any ==
    \/ elapsed >= min_change_seconds
    \/ phase1_done_seen
    \/ public_probe_pass
    \/ elapsed >= target_change_seconds

change_trigger_without_minimum ==
    \/ phase1_done_seen
    \/ public_probe_pass
    \/ elapsed >= target_change_seconds

change_trigger ==
    /\ elapsed >= min_change_seconds
    /\ \/ phase1_done_seen
       \/ public_probe_pass
       \/ elapsed >= target_change_seconds

InjectDueNoLatch == change_trigger

\* if change_trigger and not change_injected
InjectDue == change_trigger /\ ~change_injected

Pasted(r) == \E i \in DOMAIN r : r[i].cmd = "paste_buffer" /\ r[i].ok

\* the change prompt is sent when due; a failing tmux command raises
ChangeStep ==
    /\ pc = "change"
    /\ IF InjectDue
         THEN \E r \in TmuxRuns(tmux_send_prompt_cmds) :
                /\ tmux_step' = r
                /\ change_sends' = change_sends + (IF Pasted(r) THEN 1 ELSE 0)
                /\ IF RunOk(r)
                     THEN /\ commands_log' = append_jsonl(commands_log, Event("change_prompt"))
                          /\ change_injected' = TRUE
                          /\ change_injected_epoch' = clock
                          /\ pc' = "liveness"
                          /\ raised' = FALSE
                          /\ UNCHANGED << worker_text, start_epoch, min_change_seconds,
                                          target_change_seconds, budget_seconds,
                                          probe_interval, next_public_probe_at, now,
                                          elapsed, phase1_done_seen, final_done_seen,
                                          public_probe_pass, probe_results, end_reason,
                                          iter_probes, last_probe_now >>
                     ELSE /\ pc' = "finally"
                          /\ raised' = TRUE
                          /\ commands_log' = commands_log
                          /\ LocalsGone
         ELSE /\ pc' = "liveness"
              /\ tmux_step' = << >>
              /\ UNCHANGED << commands_log, change_injected, change_injected_epoch,
                              raised, change_sends, worker_text, start_epoch,
                              min_change_seconds, target_change_seconds, budget_seconds,
                              probe_interval, next_public_probe_at, now, elapsed,
                              phase1_done_seen, final_done_seen, public_probe_pass,
                              probe_results, end_reason, iter_probes, last_probe_now >>
    /\ UNCHANGED << clock, pane, session_result, session_killed, probe_running >>
    /\ UNCHANGED ready_vars
    /\ UNCHANGED score_vars
    /\ UNCHANGED << keep_tmux_session, hidden_config >>
    /\ UNCHANGED analysis_vars

pane_dead_unless_done(ok) ==
    (IF ~ok THEN TRUE ELSE pane = "dead") /\ ~(change_injected /\ final_done_seen)

\* pane_dead(pane_target): a failing query counts as dead, otherwise the
\* pane is dead when tmux prints 1
pane_dead(ok) == IF ~ok THEN TRUE ELSE pane = "dead"

\* the dict built by the return statement, with the fields that main() and
\* the validity checks read
SessionResult(reason) ==
    [ start_epoch |-> start_epoch,
      end_reason |-> reason,
      worker_ready |-> (CHOOSE s \in ready_state : TRUE).ready,
      worker_ready_reason |-> (CHOOSE s \in ready_state : TRUE).reason,
      change_injected |-> change_injected,
      change_injected_epoch |-> change_injected_epoch,
      phase1_done_seen |-> phase1_done_seen,
      final_done_seen |-> final_done_seen,
      public_probe_pass |-> public_probe_pass,
      probe_results |-> probe_results ]

\* end_reason = reason; break; return {...}: the result is built from the
\* locals, which then go out of scope
Return(reason) ==
    /\ session_result' = {SessionResult(reason)}
    /\ pc' = "capture"
    /\ LocalsGone

LoopGoesOn ==
    UNCHANGED << worker_text, session_result, start_epoch, min_change_seconds,
                 target_change_seconds, budget_seconds, probe_interval,
                 next_public_probe_at, now, elapsed, change_injected,
                 change_injected_epoch, phase1_done_seen, final_done_seen,
                 public_probe_pass, probe_results, end_reason, iter_probes,
                 last_probe_now >>

Liveness ==
    /\ pc = "liveness"
    /\ \E ok \in TmuxOutcomes("pane_dead_query") :
        /\ tmux_step' = << [cmd |-> "pane_dead_query", ok |-> ok] >>
        /\ IF pane_dead(ok)
             THEN Return("worker_pane_dead")
             ELSE pc' = "end_check" /\ LoopGoesOn
    /\ UNCHANGED << clock, pane, commands_log, raised, session_killed, probe_running,
                    change_sends >>
    /\ UNCHANGED ready_vars
    /\ UNCHANGED score_vars
    /\ UNCHANGED << keep_tmux_session, hidden_config >>
    /\ UNCHANGED analysis_vars

FinalDoneAlone == final_done_seen

\* if change_injected and final_done_seen
FinalDone == change_injected /\ final_done_seen

BudgetReachedExactly == elapsed = budget_seconds

\* if elapsed >= budget_seconds
BudgetReached == elapsed >= budget_seconds

\* the two remaining exits of the loop, else the sleep before the next turn
EndCheck ==
    /\ pc = "end_check"
    /\ IF FinalDone
         THEN Return("final_done_token_seen") /\ clock' = clock
         ELSE IF BudgetReached
                THEN Return("time_budget_reached") /\ clock' = clock
                ELSE /\ pc' = "loop_top"
                     /\ LoopGoesOn
                     /\ clock' = clock + PollSleep
    /\ tmux_step' = << >>
    /\ UNCHANGED << pane, commands_log, raised, session_killed, probe_running,
                    change_sends >>
    /\ UNCHANGED ready_vars
    /\ UNCHANGED score_vars
    /\ UNCHANGED << keep_tmux_session, hidden_config >>
    /\ UNCHANGED analysis_vars

(* ------------------------- main(): after the driver -------------------- *)
\* time.sleep(1), then capture_pane, whose failure is written to the capture file
CapturePane ==
    /\ pc = "capture"
    /\ clock' = clock + FlushSleep
    /\ \E ok \in TmuxOutcomes("capture_pane") :
        tmux_step' = << [cmd |-> "capture_pane", ok |-> ok] >>
    /\ pc' = "finally"
    /\ UNCHANGED << pane, worker_text, commands_log, raised, session_result,
                    session_killed >>
    /\ UNCHANGED ready_vars
    /\ UNCHANGED loop_vars
    /\ UNCHANGED score_vars
    /\ UNCHANGED << keep_tmux_session, hidden_config >>
    /\ UNCHANGED analysis_vars

leave_finally_swallowing(propagating) == "post_run"

\* the end of the finally block: an exception that is propagating leaves main()
leave_finally(propagating) == IF propagating THEN "exit_error" ELSE "post_run"

kill_due_after_return(keep) == ~keep /\ ~raised

\* if not args.keep_tmux_session
kill_due(keep) == ~keep

\* the finally block: kill_session unless --keep-tmux-session; its result is
\* not looked at.  An exception raised by the driver then leaves main().
Finally ==
    /\ pc = "finally"
    /\ \E keep \in BOOLEAN :
        /\ keep_tmux_session' = {keep}
        /\ IF kill_due(keep)
             THEN \E ok \in TmuxOutcomes("kill_session") :
                    /\ tmux_step' = << [cmd |-> "kill_session", ok |-> ok] >>
                    /\ session_killed' = TRUE
             ELSE tmux_step' = << >> /\ session_killed' = session_killed
    /\ pc' = leave_finally(raised)
    /\ UNCHANGED << clock, pane, worker_text, commands_log, raised, session_result,
                    hidden_config >>
    /\ UNCHANGED ready_vars
    /\ UNCHANGED loop_vars
    /\ UNCHANGED score_vars
    /\ UNCHANGED analysis_vars

Next ==
    \/ PaneExits
    \/ SetupLine
    \/ CheckTransport
    \/ WorkerStart
    \/ ReadyBegin
    \/ ReadyPoll
    \/ LogReady
    \/ InitialPrompt
    \/ StartLoop
    \/ LoopTop
    \/ ProbeStart
    \/ ProbeSkip
    \/ ProbeReturn
    \/ ChangeStep
    \/ Liveness
    \/ EndCheck
    \/ CapturePane
    \/ Finally

Spec == Init /\ [][Next]_vars

\* the steps of the driver itself: main() is one sequential thread, so the
\* driver takes its next step whenever it has one (every tmux command, sleep
\* and probe returns)
DriverStep ==
    \/ SetupLine
    \/ CheckTransport
    \/ WorkerStart
    \/ ReadyBegin
    \/ ReadyPoll
    \/ LogReady
    \/ InitialPrompt
    \/ StartLoop
    \/ LoopTop
    \/ ProbeStart
    \/ ProbeSkip
    \/ ProbeReturn
    \/ ChangeStep
    \/ Liveness
    \/ EndCheck
    \/ CapturePane
    \/ Finally

FairSpec == Spec /\ WF_vars(DriverStep)

(* ------------------------------ run_scoring ---------------------------- *)
Min(a, b) == IF a <= b THEN a ELSE b

\* dict.get(key, default)
Get(d, key, default) == IF key \in DOMAIN d THEN d[key] ELSE default

\* a ratio of collect_git_metrics, kept as the two counts it divides (0.0 when
\* there is nothing to divide by), compared with a threshold given in hundredths
RatioAtLeast(r, hundredths) == r.den > 0 /\ r.num * 100 >= hundredths * r.den

RatioAbove(r, hundredths) == r.den > 0 /\ r.num * 100 > hundredths * r.den

\* result.exit_code == 0 of a result that may be None ({} stands for None)
ExitOk(result) == result # {} /\ \A r \in result : r.exit_code = 0

FunctionalScoreAllOrNothing(w_public, w_hidden, public_pass, hidden_pass) ==
    IF public_pass /\ hidden_pass THEN w_public + w_hidden ELSE 0

\* (w_public if public_pass else 0) + (w_hidden if hidden_pass else 0)
FunctionalScore(w_public, w_hidden, public_pass, hidden_pass) ==
    (IF public_pass THEN w_public ELSE 0) + (IF hidden_pass THEN w_hidden ELSE 0)

EarlyAdoption(tak, git) ==
    LET first_tak == git.first_tak_commit_index
        first_code == git.first_code_commit_index
    IN  IF first_tak # {} /\ (first_code = {} \/ \A t \in first_tak, c \in first_code : t <= c)
          THEN 5
        ELSE IF first_tak # {} /\ first_code # {}
                /\ \A t \in first_tak, c \in first_code : t - c <= 1
          THEN 3
        ELSE IF tak.task_count > 0 THEN 1
        ELSE 0

PlanningStructure(tak) ==
    IF tak.epic_count >= 1 /\ tak.task_count >= 5 /\ tak.child_count >= 3 THEN 8
    ELSE IF tak.task_count >= 4 /\ tak.dependency_edges >= 1 THEN 6
    ELSE IF tak.task_count >= 2 THEN 3
    ELSE IF tak.task_count >= 1 THEN 1
    ELSE 0

LifecycleHygieneUncapped(tak) ==
    LET in_progress == tak.status_counts.in_progress
        done_count == tak.status_counts.done
        history_counts == tak.history_event_counts
        s1 == 8 - in_progress
        s2 == IF history_counts.start = 0 /\ tak.task_count > 0 THEN s1 - 2 ELSE s1
        s3 == IF done_count > 0 /\ history_counts.finish = 0 THEN s2 - 2 ELSE s2
    IN  Max(0, s3)

\* lifecycle_score
LifecycleHygiene(tak) ==
    LET in_progress == tak.status_counts.in_progress
        done_count == tak.status_counts.done
        history_counts == tak.history_event_counts
        s1 == IF in_progress > 0 THEN 8 - Min(4, in_progress) ELSE 8
        s2 == IF history_counts.start = 0 /\ tak.task_count > 0 THEN s1 - 2 ELSE s1
        s3 == IF done_count > 0 /\ history_counts.finish = 0 THEN s2 - 2 ELSE s2
    IN  Max(0, s3)

VerificationDiscipline(tak, transcript) ==
    IF transcript.tak_verify_mentions > 0 /\ tak.verification_result_count > 0 THEN 4
    ELSE IF transcript.test_command_mentions >= 2 THEN 2
    ELSE IF transcript.test_command_mentions >= 1 \/ transcript.pytest_mentions >= 1 THEN 1
    ELSE 0

Cadence(commit_count) ==
    IF commit_count >= 5 THEN 8
    ELSE IF commit_count >= 4 THEN 6
    ELSE IF commit_count >= 3 THEN 4
    ELSE IF commit_count >= 1 THEN 2
    ELSE 0

Atomicity(git) ==
    IF RatioAtLeast(git.small_commit_ratio, 70) THEN 8
    ELSE IF RatioAtLeast(git.small_commit_ratio, 50) THEN 6
    ELSE IF RatioAtLeast(git.small_commit_ratio, 30) THEN 4
    ELSE IF RatioAbove(git.small_commit_ratio, 0) THEN 2
    ELSE 0

MessageQuality(git) ==
    IF RatioAtLeast(git.good_message_ratio, 75) THEN 4
    ELSE IF RatioAtLeast(git.good_message_ratio, 50) THEN 3
    ELSE IF RatioAtLeast(git.good_message_ratio, 25) THEN 2
    ELSE IF RatioAbove(git.good_message_ratio, 0) THEN 1
    ELSE 0

NoChangeComponents == [replan_after_change |-> 0, implement_and_validate_change |-> 0,
                 close_loop |-> 0]

ChangeComponentsUngated(injected, change_probe_pass, hidden_pass, tak, git) ==
    [replan_after_change |->
        IF tak.tasks_modified_after_change > 0 /\ tak.history_events_after_change > 0
          THEN 4
        ELSE IF tak.tasks_modified_after_change > 0 THEN 2
        ELSE 0,
     implement_and_validate_change |->
        IF change_probe_pass /\ hidden_pass THEN 4
        ELSE IF change_probe_pass THEN 3
        ELSE IF hidden_pass THEN 2
        ELSE 0,
     close_loop |->
        IF git.commits_after_change >= 1 /\ tak.status_counts.in_progress = 0 THEN 2
        ELSE IF git.commits_after_change >= 1 THEN 1
        ELSE 0]

\* the three change_adaptation components, all under `if change_injected:`
ChangeComponents(injected, change_probe_pass, hidden_pass, tak, git) ==
    IF injected
      THEN ChangeComponentsUngated(injected, change_probe_pass, hidden_pass, tak, git)
      ELSE NoChangeComponents

ContractRichness(tak) ==
    IF tak.contract_task_count >= 2 /\ tak.contract_verification_task_count >= 1 THEN 4
    ELSE IF tak.contract_task_count >= 1 THEN 2
    ELSE 0

VerifyUsage(tak, transcript) ==
    IF transcript.tak_verify_mentions > 0 /\ tak.verification_result_count > 0 THEN 3
    ELSE IF transcript.tak_verify_mentions > 0 THEN 1
    ELSE 0

ContextOrLearnings(tak) ==
    IF tak.context_count > 0 /\ tak.learning_count > 0 THEN 3
    ELSE IF tak.context_count > 0 \/ tak.learning_count > 0 THEN 2
    ELSE 0

ManualTakPenaltyUncapped(incident_count, first_penalty, add_penalty, cap_penalty) ==
    IF incident_count > 0
      THEN first_penalty + Max(0, incident_count - 1) * add_penalty
      ELSE 0

\* penalties["manual_tak_edits"]
ManualTakPenalty(incident_count, first_penalty, add_penalty, cap_penalty) ==
    IF incident_count > 0
      THEN Min(cap_penalty, first_penalty + Max(0, incident_count - 1) * add_penalty)
      ELSE 0

CommitPenaltiesNoneOnly(commit_count) ==
    [no_commits |-> IF commit_count = 0 THEN 30 ELSE 0, few_commits |-> 0]

\* penalties["no_commits"] and penalties["few_commits"]
CommitPenalties(commit_count) ==
    IF commit_count = 0 THEN [no_commits |-> 30, few_commits |-> 0]
    ELSE IF commit_count < 4 THEN [no_commits |-> 0, few_commits |-> 10]
    ELSE [no_commits |-> 0, few_commits |-> 0]

GiantFinalCommitOfSeveral(git) ==
    IF RatioAbove(git.final_commit_ratio, 60) /\ git.commit_count >= 2 THEN 8 ELSE 0

\* penalties["giant_final_commit"]
GiantFinalCommit(git) ==
    IF RatioAbove(git.final_commit_ratio, 60) /\ git.commit_count >= 1 THEN 8 ELSE 0

ClampNone(total_raw) == total_raw

\* total_clamped = max(0, total_raw)
Clamp(total_raw) == Max(0, total_raw)

CategoryScoreUnclamped(category_max, component_sum) == component_sum

\* min(w, sum(components.values())) of a category
CategoryScore(category_max, component_sum) == Min(category_max, component_sum)

TotalsWithoutBonus(functional_score, tak_workflow_score, git_score, change_score, bonus_score, penalties_total) ==
    LET core_total == functional_score + tak_workflow_score + git_score + change_score
        total_raw == core_total - penalties_total
    IN  [core |-> core_total, bonus |-> bonus_score, penalties |-> penalties_total,
         raw |-> total_raw, clamped |-> Clamp(total_raw)]

\* core_total, total_raw, total_clamped and the "totals" entry of the report
Totals(functional_score, tak_workflow_score, git_score, change_score, bonus_score, penalties_total) ==
    LET core_total == functional_score + tak_workflow_score + git_score + change_score
        total_raw == core_total + bonus_score - penalties_total
    IN  [core |-> core_total, bonus |-> bonus_score, penalties |-> penalties_total,
         raw |-> total_raw, clamped |-> Clamp(total_raw)]

\* run_scoring(objective=..., public_result=..., ...): `a` holds the keyword
\* arguments, the value is the returned dict
run_scoring(a) ==
    LET scoring == a.scoring
        tak == a.tak
        git == a.git
        transcript == a.transcript
        w_public == Get(scoring, "functional_public", 15)
        w_hidden == Get(scoring, "functional_hidden", 30)
        w_tak == Get(scoring, "tak_workflow", 25)
        w_git == Get(scoring, "git_discipline", 20)
        w_change == Get(scoring, "change_adaptation", 10)
        w_bonus_cap == Get(scoring, "bonus", 10)
        public_pass == a.public_result.exit_code = 0
        hidden_pass == ExitOk(a.hidden_result)
        change_probe_pass == ExitOk(a.change_probe_result)
        functional_score == FunctionalScore(w_public, w_hidden, public_pass, hidden_pass)
        tak_components ==
            [early_adoption |-> EarlyAdoption(tak, git),
             planning_structure |-> PlanningStructure(tak),
             lifecycle_hygiene |-> LifecycleHygiene(tak),
             verification_discipline |-> VerificationDiscipline(tak, transcript)]
        tak_workflow_score ==
            CategoryScore(w_tak, tak_components.early_adoption + tak_components.planning_structure
                                 + tak_components.lifecycle_hygiene
                                 + tak_components.verification_discipline)
        commit_count == git.commit_count
        git_components ==
            [cadence |-> Cadence(commit_count),
             atomicity |-> Atomicity(git),
             message_quality |-> MessageQuality(git)]
        git_sum == CategoryScore(w_git, git_components.cadence + git_components.atomicity
                                        + git_components.message_quality)
        change_components ==
            ChangeComponents(a.change_injected, change_probe_pass, hidden_pass, tak, git)
        change_score ==
            CategoryScore(w_change, change_components.replan_after_change
                                    + change_components.implement_and_validate_change
                                    + change_components.close_loop)
        bonus_components ==
            [contract_richness |-> ContractRichness(tak),
             verify_usage |-> VerifyUsage(tak, transcript),
             context_or_learnings |-> ContextOrLearnings(tak)]
        bonus_score ==
            CategoryScore(w_bonus_cap, bonus_components.contract_richness
                                       + bonus_components.verify_usage
                                       + bonus_components.context_or_learnings)
        incident_count == transcript.manual_tak_edit_evidence + tak.normalization_issues
        commit_penalties == CommitPenalties(commit_count)
        penalties ==
            [manual_tak_edits |->
                ManualTakPenalty(incident_count,
                                 Get(scoring, "penalty_manual_tak_first", 20),
                                 Get(scoring, "penalty_manual_tak_additional", 10),
                                 Get(scoring, "penalty_manual_tak_cap", 40)),
             no_commits |-> commit_penalties.no_commits,
             few_commits |-> commit_penalties.few_commits,
             giant_final_commit |-> GiantFinalCommit(git)]
        git_score == IF commit_count = 0 THEN 0 ELSE git_sum
        penalties_total == penalties.manual_tak_edits + penalties.no_commits
                           + penalties.few_commits + penalties.giant_final_commit
    IN  [functional |->
            [score |-> functional_score, max |-> w_public + w_hidden,
             public_pass |-> public_pass, hidden_pass |-> hidden_pass,
             change_probe_pass |-> change_probe_pass],
         tak_workflow |->
            [score |-> tak_workflow_score, max |-> w_tak, components |-> tak_components],
         git_discipline |->
            [score |-> git_score, max |-> w_git, components |-> git_components],
         change_adaptation |->
            [score |-> change_score, max |-> w_change, components |-> change_components,
             change_injected |-> a.change_injected,
             change_injected_epoch |-> a.change_injected_epoch],
         bonus |->
            [score |-> bonus_score, max |-> w_bonus_cap, components |-> bonus_components],
         penalties |->
            [score |-> penalties_total, components |-> penalties,
             manual_tak_edit_incidents |-> incident_count],
         totals |->
            Totals(functional_score, tak_workflow_score, git_score, change_score,
                   bonus_score, penalties_total)]

(* ------------------- main(): the arguments of run_scoring -------------- *)
ScoringKeys == {"functional_public", "functional_hidden", "tak_workflow",
                "git_discipline", "change_adaptation", "bonus",
                "penalty_manual_tak_first", "penalty_manual_tak_additional",
                "penalty_manual_tak_cap"}

\* values of the manifest's scoring section: int(v) of anything, unchecked
WeightValues == {0 - MaxWeight, 0, MaxWeight}

\* objective.scoring: the manifest leaves every key to its default or sets one
ScoringMaps ==
    {[k \in {} |-> 0]} \cup {[k \in {key} |-> v] : key \in ScoringKeys, v \in WeightValues}

ExecResults01 == [exit_code : {0, 1}]

OptionalResults == {{}} \cup {{r} : r \in ExecResults01}

\* collect_tak_metrics of three task stores: none, a small neglected one, a
\* well-kept one
TakMetrics ==
    { [task_count |-> 0, epic_count |-> 0, child_count |-> 0, dependency_edges |-> 0,
       status_counts |-> [in_progress |-> 0, done |-> 0],
       history_event_counts |-> [start |-> 0, finish |-> 0],
       verification_result_count |-> 0, tasks_modified_after_change |-> 0,
       history_events_after_change |-> 0, contract_task_count |-> 0,
       contract_verification_task_count |-> 0, context_count |-> 0,
       learning_count |-> 0, normalization_issues |-> 0],
      [task_count |-> 2, epic_count |-> 0, child_count |-> 0, dependency_edges |-> 0,
       status_counts |-> [in_progress |-> 5, done |-> 1],
       history_event_counts |-> [start |-> 0, finish |-> 0],
       verification_result_count |-> 0, tasks_modified_after_change |-> 1,
       history_events_after_change |-> 0, contract_task_count |-> 1,
       contract_verification_task_count |-> 0, context_count |-> 1,
       learning_count |-> 0, normalization_issues |-> 1],
      [task_count |-> 5, epic_count |-> 1, child_count |-> 3, dependency_edges |-> 1,
       status_counts |-> [in_progress |-> 0, done |-> 5],
       history_event_counts |-> [start |-> 5, finish |-> 5],
       verification_result_count |-> 1, tasks_modified_after_change |-> 1,
       history_events_after_change |-> 1, contract_task_count |-> 2,
       contract_verification_task_count |-> 1, context_count |-> 1,
       learning_count |-> 1, normalization_issues |-> 0] }

GitStyles == {"small_steps", "bulk"}

\* collect_git_metrics of commit_count commits made in one of two styles:
\* task-first small commits of equal size with good messages, or code-first
\* large commits, every second one with a good message, the last one holding
\* two thirds of the changed lines
GitMetrics(commit_count, style) ==
    IF style = "small_steps"
      THEN [commit_count |-> commit_count,
            first_tak_commit_index |-> IF commit_count > 0 THEN {0} ELSE {},
            first_code_commit_index |-> IF commit_count > 1 THEN {1} ELSE {},
            small_commit_ratio |-> [num |-> commit_count, den |-> commit_count],
            good_message_ratio |-> [num |-> commit_count, den |-> commit_count],
            final_commit_ratio |-> [num |-> Min(1, commit_count), den |-> commit_count],
            commits_after_change |-> Min(1, commit_count)]
      ELSE [commit_count |-> commit_count,
            first_tak_commit_index |-> {},
            first_code_commit_index |-> IF commit_count > 0 THEN {0} ELSE {},
            small_commit_ratio |-> [num |-> 0, den |-> commit_count],
            good_message_ratio |-> [num |-> commit_count \div 2, den |-> commit_count],
            final_commit_ratio |-> [num |-> 2 * Min(1, commit_count),
                                    den |-> 3 * Min(1, commit_count)],
            commits_after_change |-> 0]

\* transcript_metrics: the agent ran one `tak verify` per verification result
\* and one pytest per task (test commands are the two together); the
\* manual-edit evidence lines are counted separately
TranscriptMetrics(tak, manual_lines) ==
    [tak_verify_mentions |-> tak.verification_result_count,
     pytest_mentions |-> tak.task_count,
     test_command_mentions |-> tak.verification_result_count + tak.task_count,
     manual_tak_edit_evidence |-> manual_lines]

\* main() after the driver returned, the session was killed, the tests were
\* run and the metrics were collected: the arguments of run_scoring are at hand
ScoringInit ==
    /\ pc = "run_scoring"
    /\ \E scoring \in ScoringMaps, public_result \in ExecResults01,
          hidden_result \in OptionalResults, change_probe_result \in OptionalResults,
          tak \in TakMetrics, commit_count \in 0..MaxCommits, style \in GitStyles,
          manual_lines \in 0..MaxManualLines, injected \in BOOLEAN :
            score_in = {[scoring |-> scoring, public_result |-> public_result,
                         hidden_result |-> hidden_result,
                         change_probe_result |-> change_probe_result,
                         tak |-> tak, git |-> GitMetrics(commit_count, style),
                         transcript |-> TranscriptMetrics(tak, manual_lines),
                         change_injected |-> injected,
                         change_injected_epoch |-> IF injected THEN 0 ELSE -1]}
    /\ score_report = {}
    /\ session_result =
        {[start_epoch |-> 0, end_reason |-> "time_budget_reached", worker_ready |-> TRUE,
          worker_ready_reason |-> "no_wait", change_injected |-> a.change_injected,
          change_injected_epoch |-> a.change_injected_epoch, phase1_done_seen |-> FALSE,
          final_done_seen |-> FALSE, public_probe_pass |-> FALSE,
          probe_results |-> << >>] : a \in score_in}
    /\ commands_log =
        << Event("setup"), Event("setup"), Event("setup"), Event("worker_start"),
           Event("worker_ready"), Event("initial_prompt") >>
        \o (IF \E a \in score_in : a.change_injected
              THEN << Event("change_prompt") >> ELSE << >>)
    /\ session_killed = TRUE
    /\ keep_tmux_session = {FALSE}
    /\ hidden_config = NoHiddenTests
    /\ pane = "gone"
    /\ clock = 0
    /\ worker_text = {}
    /\ tmux_step = << >>
    /\ raised = FALSE
    /\ transport = "tmux_buffer_paste"
    /\ ready_strategy = "none"
    /\ ready_started = 0
    /\ ready_deadline = 0
    /\ ready_state = {ReadyState(TRUE, "none", "no_wait")}
    /\ start_epoch = 0
    /\ min_change_seconds = 0
    /\ target_change_seconds = 0
    /\ budget_seconds = 0
    /\ probe_interval = 0
    /\ next_public_probe_at = 0
    /\ now = 0
    /\ elapsed = 0
    /\ change_injected = FALSE
    /\ change_injected_epoch = -1
    /\ phase1_done_seen = FALSE
    /\ final_done_seen = FALSE
    /\ public_probe_pass = FALSE
    /\ probe_results = << >>
    /\ end_reason = None
    /\ probe_running = FALSE
    /\ iter_probes = 0
    /\ last_probe_now = -1
    /\ change_sends = 0
    /\ TasksIdle
    /\ GitIdle
    /\ ReportIdle

\* scoring = run_scoring(...)
RunScoring ==
    /\ pc = "run_scoring"
    /\ score_report' = {run_scoring(a) : a \in score_in}
    /\ pc' = "validity"
    /\ UNCHANGED << clock, pane, worker_text, commands_log, tmux_step, raised,
                    session_result, session_killed, score_in >>
    /\ UNCHANGED ready_vars
    /\ UNCHANGED loop_vars
    /\ UNCHANGED analysis_vars
    /\ UNCHANGED << keep_tmux_session, hidden_config >>

ScoringNext == RunScoring

ScoringSpec == ScoringInit /\ [][ScoringNext]_vars

(* ------------------------------ load_tasks ----------------------------- *)
\* most files of .tak/tasks that a scan is run on
MaxTaskFiles == 2

\* sorted(set(xs)) for a collection of integers
RECURSIVE SortedSeq(_)
SortedSeq(S) ==
    IF S = {} THEN << >>
    ELSE LET m == CHOOSE x \in S : \A y \in S : x <= y
         IN  << m >> \o SortedSeq(S \ {m})

SortedSet(xs) == SortedSeq({xs[i] : i \in 1..Len(xs)})

\* str.strip() on a title, written as a sequence of "_" (whitespace) and other characters
RECURSIVE strip(_)
strip(title) ==
    IF title = << >> THEN << >>
    ELSE IF Head(title) = "_" THEN strip(Tail(title))
    ELSE IF title[Len(title)] = "_" THEN strip(SubSeq(title, 1, Len(title) - 1))
    ELSE title

\* what a *.json file of .tak/tasks can hold: bytes that are not UTF-8, text that is
\* not JSON, a JSON value that is not an object, or an object
TaskFile(content, tags, depends_on, title) ==
    [content |-> content, tags |-> tags, depends_on |-> depends_on, title |-> title]

TaskFiles ==
    {TaskFile(c, << >>, << >>, << >>) : c \in {"not_utf8", "not_json", "non_object"}}
    \cup {TaskFile("object", tags, deps, title) :
            tags \in {<< >>, << 1, 2 >>, << 2, 1 >>, << 1, 1 >>},
            deps \in {<< >>, << 1, 2 >>, << 2, 1 >>},
            title \in {<< "x" >>, << "_", "x" >>, << "x", "_" >>}}

Issue(file, issue) == [file |-> file, issue |-> issue]

\* the issues one parsed task adds, in the order of the three checks of the loop body
TaskIssues(file, task) ==
    (IF task.tags # SortedSet(task.tags)
       THEN << Issue(file, "tags_not_sorted_unique") >> ELSE << >>)
    \o (IF task.depends_on # << >> /\ task.depends_on # SortedSet(task.depends_on)
          THEN << Issue(file, "depends_on_not_sorted_unique") >> ELSE << >>)
    \o (IF task.title # strip(task.title)
          THEN << Issue(file, "title_not_trimmed") >> ELSE << >>)

\* the session is killed, the locals of drive_worker_session are of no use any more
SessionGone ==
    /\ session_killed = TRUE
    /\ keep_tmux_session = {FALSE}
    /\ pane = "gone"
    /\ clock = 0
    /\ worker_text = {}
    /\ tmux_step = << >>
    /\ raised = FALSE
    /\ transport = "tmux_buffer_paste"
    /\ ready_strategy = "none"
    /\ ready_started = 0
    /\ ready_deadline = 0
    /\ ready_state = {ReadyState(TRUE, "none", "no_wait")}
    /\ start_epoch = 0
    /\ min_change_seconds = 0
    /\ target_change_seconds = 0
    /\ budget_seconds = 0
    /\ probe_interval = 0
    /\ next_public_probe_at = 0
    /\ now = 0
    /\ elapsed = 0
    /\ change_injected = FALSE
    /\ change_injected_epoch = -1
    /\ phase1_done_seen = FALSE
    /\ final_done_seen = FALSE
    /\ public_probe_pass = FALSE
    /\ probe_results = << >>
    /\ end_reason = None
    /\ probe_running = FALSE
    /\ iter_probes = 0
    /\ last_probe_now = -1
    /\ change_sends = 0

\* the state main() is in once drive_worker_session has returned and the session is gone
DriverReturned ==
    /\ session_result =
        {[start_epoch |-> 0, end_reason |-> "time_budget_reached", worker_ready |-> TRUE,
          worker_ready_reason |-> "no_wait", change_injected |-> FALSE,
          change_injected_epoch |-> -1, phase1_done_seen |-> FALSE,
          final_done_seen |-> FALSE, public_probe_pass |-> FALSE,
          probe_results |-> << >>]}
    /\ commands_log =
        << Event("setup"), Event("setup"), Event("setup"), Event("worker_start"),
           Event("worker_ready"), Event("initial_prompt") >>
    /\ SessionGone

\* load_tasks is entered: tasks and normalization_issues are empty, the directory
\* holds any files (none when .tak/tasks is missing or empty)
LoadTasksInit ==
    /\ pc = "load_tasks"
    /\ \E n \in 0..MaxTaskFiles : task_files \in [1..n -> TaskFiles]
    /\ task_index = 0
    /\ tasks = << >>
    /\ normalization_issues = << >>
    /\ DriverReturned
    /\ hidden_config = NoHiddenTests
    /\ score_in = {}
    /\ score_report = {}
    /\ GitIdle
    /\ ReportIdle

\* one iteration of `for task_path in sorted(tasks_dir.glob("*.json"))`
LoadTaskFile ==
    /\ pc = "load_tasks"
    /\ task_index < Len(task_files)
    /\ LET file == task_index + 1
           f == task_files[file]
       IN  CASE f.content = "not_utf8" ->
                    \* read_text raises UnicodeDecodeError, which is not caught
                    /\ raised' = TRUE
                    /\ pc' = "exit_error"
                    /\ UNCHANGED << tasks, normalization_issues >>
             [] f.content = "not_json" ->
                    /\ normalization_issues' =
                         Append(normalization_issues, Issue(file, "invalid_json"))
                    /\ UNCHANGED << tasks, raised, pc >>
             [] f.content = "non_object" ->
                    \* the value is appended, then task.get raises AttributeError
                    /\ tasks' = Append(tasks, f)
                    /\ raised' = TRUE
                    /\ pc' = "exit_error"
                    /\ UNCHANGED normalization_issues
             [] OTHER ->
                    /\ tasks' = Append(tasks, f)
                    /\ normalization_issues' = normalization_issues \o TaskIssues(file, f)
                    /\ UNCHANGED << raised, pc >>
    /\ task_index' = task_index + 1
    /\ UNCHANGED task_files
    /\ UNCHANGED << clock, pane, worker_text, commands_log, tmux_step,
                    session_result, session_killed >>
    /\ UNCHANGED ready_vars
    /\ UNCHANGED loop_vars
    /\ UNCHANGED score_vars
    /\ UNCHANGED << keep_tmux_session, hidden_config >>
    /\ UNCHANGED << git_vars, report_vars >>

\* return tasks, normalization_issues
LoadTasksReturn ==
    /\ pc = "load_tasks"
    /\ task_index = Len(task_files)
    /\ pc' = "tasks_loaded"
    /\ UNCHANGED << clock, pane, worker_text, commands_log, tmux_step, raised,
                    session_result, session_killed >>
    /\ UNCHANGED ready_vars
    /\ UNCHANGED loop_vars
    /\ UNCHANGED score_vars
    /\ UNCHANGED << keep_tmux_session, hidden_config >>
    /\ UNCHANGED analysis_vars

LoadTasksNext == LoadTaskFile \/ LoadTasksReturn

LoadTasksSpec == LoadTasksInit /\ [][LoadTasksNext]_vars

(* -------------------------- collect_git_metrics ------------------------- *)
\* most commits after the baseline that the metrics are collected from
MaxListedCommits == 2

\* weak_message_re: the first words that make a commit message weak
WeakWords == {"wip", "update", "fix", "changes", "misc", "tmp"}

\* a commit as collect_git_metrics reads it: the paths `git show --name-only`
\* lists (".tak" for a path under .tak/, "src" for any other), the lines numstat
\* adds up, the subject (its length and its first word in lower case) and %ct
Commit(files, lines_changed, message, timestamp) ==
    [files |-> files, file_count |-> Len(files), lines_changed |-> lines_changed,
     message |-> message, timestamp |-> timestamp]

Commits ==
    {Commit(files, lines_changed, message, timestamp) :
       files \in {<< >>, << ".tak" >>, << "src", ".tak", "src" >>,
                  << "src", "src", "src", "src" >>},
       lines_changed \in {0, 1, 2},
       message \in {[length |-> 18, first_word |-> "fix"],
                    [length |-> 18, first_word |-> "add"]},
       timestamp \in {0, 2}}

\* change_epoch: None ({}) or the time of the change prompt
ChangeEpochs == {{}, {1}}

IsSmallCommitBelowThree(commit) == 0 < commit.file_count /\ commit.file_count < 3

\* 0 < commit["file_count"] <= 3
IsSmallCommit(commit) == 0 < commit.file_count /\ commit.file_count <= 3

\* len(message) >= 10 and not weak_message_re.search(message)
IsGoodMessage(message) == message.length >= 10 /\ message.first_word \notin WeakWords

\* a quotient kept as the two counts it divides; [0, 0] is the 0.0 the code
\* returns when it does not divide
Ratio(num, den) == [num |-> num, den |-> den]

\* the commits (numbered from 1) with a path under .tak/ (under_tak) or with a
\* path elsewhere (not under_tak)
CommitsTouching(commits, under_tak) ==
    {i \in 1..Len(commits) :
        \E k \in 1..Len(commits[i].files) : (commits[i].files[k] = ".tak") = under_tak}

\* index (from 0) of the first of these commits, {} for None
FirstIndex(hits) ==
    IF hits = {} THEN {} ELSE {(CHOOSE i \in hits : \A j \in hits : i <= j) - 1}

RECURSIVE SumLines(_)
SumLines(commits) ==
    IF commits = << >> THEN 0 ELSE Head(commits).lines_changed + SumLines(Tail(commits))

collect_git_metrics(commits, change_epoch) ==
    LET commit_count == Len(commits)
        small_commits == Cardinality({i \in 1..commit_count : IsSmallCommit(commits[i])})
        good_messages ==
            Cardinality({i \in 1..commit_count : IsGoodMessage(commits[i].message)})
        total_lines_changed == SumLines(commits)
    IN  [commit_count |-> commit_count,
         commits |-> commits,
         first_tak_commit_index |-> FirstIndex(CommitsTouching(commits, TRUE)),
         first_code_commit_index |-> FirstIndex(CommitsTouching(commits, FALSE)),
         small_commit_ratio |->
            IF commit_count > 0 THEN Ratio(small_commits, commit_count) ELSE Ratio(0, 0),
         good_message_ratio |->
            IF commit_count > 0 THEN Ratio(good_messages, commit_count) ELSE Ratio(0, 0),
         final_commit_ratio |->
            IF commit_count > 0 /\ total_lines_changed > 0
              THEN Ratio(commits[commit_count].lines_changed, total_lines_changed)
              ELSE Ratio(0, 0),
         commits_after_change |->
            Cardinality({i \in 1..commit_count :
                           \E e \in change_epoch : commits[i].timestamp >= e}),
         total_lines_changed |-> total_lines_changed]

\* collect_git_metrics is entered with any commits after the baseline
GitMetricsInit ==
    /\ pc = "collect_git_metrics"
    /\ \E n \in 0..MaxListedCommits : \E commits \in [1..n -> Commits] :
         \E change_epoch \in ChangeEpochs :
            git_in = [commits |-> commits, change_epoch |-> change_epoch]
    /\ git_metrics = {}
    /\ DriverReturned
    /\ hidden_config = NoHiddenTests
    /\ score_in = {}
    /\ score_report = {}
    /\ TasksIdle
    /\ ReportIdle

\* git_metrics = collect_git_metrics(repo_dir, baseline_sha, change_epoch)
CollectGitMetrics ==
    /\ pc = "collect_git_metrics"
    /\ git_metrics' = {collect_git_metrics(git_in.commits, git_in.change_epoch)}
    /\ pc' = "git_collected"
    /\ UNCHANGED git_in
    /\ UNCHANGED << clock, pane, worker_text, commands_log, tmux_step, raised,
                    session_result, session_killed >>
    /\ UNCHANGED ready_vars
    /\ UNCHANGED loop_vars
    /\ UNCHANGED score_vars
    /\ UNCHANGED << keep_tmux_session, hidden_config >>
    /\ UNCHANGED << tasks_vars, report_vars >>

GitMetricsNext == CollectGitMetrics

GitMetricsSpec == GitMetricsInit /\ [][GitMetricsNext]_vars

(* --------------------- main(): validity and the report ------------------ *)
\* an ExecResult of run_cmd; the command is written like a title, "_" for whitespace
ExecResult(command, exit_code, timed_out) ==
    [command |-> command, exit_code |-> exit_code, timed_out |-> timed_out]

\* exit code run_cmd reports for a command that ran into its timeout
TimeoutExitCode == 124

\* exit code of the shell for a command it cannot find
CommandNotFound == 127

test_command_passed(result) == ExitOk(result)

\* test_command_executed(result), result None ({}) or an ExecResult
test_command_executed(result) ==
    IF result = {} THEN FALSE
    ELSE \A r \in result :
            IF r.timed_out THEN FALSE
            ELSE IF r.exit_code = CommandNotFound THEN FALSE
            ELSE strip(r.command) # << >>

CommandEventTypesOfSetup(log) == {log[i].type : i \in 1..Min(6, Len(log))}

\* command_event_type_set of the events load_jsonl reads from commands.jsonl
CommandEventTypes(log) == {log[i].type : i \in 1..Len(log)}

WorkerProgressEvidenceWithoutHistory(session, git, tak) ==
    \/ \E sr \in session : sr.phase1_done_seen \/ sr.final_done_seen
    \/ git.commit_count > 0
    \/ tak.task_count > 0

\* worker_progress_evidence
WorkerProgressEvidence(session, git, tak) ==
    \/ \E sr \in session : sr.phase1_done_seen \/ sr.final_done_seen
    \/ git.commit_count > 0
    \/ tak.task_count > 0
    \/ tak.history_event_count > 0

ReadyCheckFailedNever(session) == FALSE

\* session_result and session_result.get("worker_ready") is False
ReadyCheckFailed(session) == \E sr \in session : sr.worker_ready = FALSE

When(cond, reason) == IF cond THEN << reason >> ELSE << >>

\* invalid_reasons, in the order main() appends them; session is session_result
\* ({} for None), types is command_event_type_set, a is what main() collected
InvalidReasons(session, types, a) ==
    LET public_test_executed == test_command_executed({a.public_result})
        hidden_test_executed == test_command_executed(a.hidden_result)
        hidden_required == a.hidden_tests_required /\ ~a.allow_missing_hidden_tests
    IN  When(~a.worker_log_present, "missing_or_empty_worker_log")
        \o When(~a.commands_log_present, "missing_or_empty_commands_log")
        \o When(session = {}, "missing_session_result")
        \o When("worker_start" \notin types, "missing_worker_start_event")
        \o When("initial_prompt" \notin types, "missing_initial_prompt_event")
        \o When("worker_ready" \notin types, "missing_worker_ready_event")
        \o When(ReadyCheckFailed(session), "worker_ready_check_failed")
        \o When(~public_test_executed, "public_tests_not_executed")
        \o When(hidden_required /\ ~a.hidden_command, "missing_hidden_test_command")
        \o When(hidden_required /\ ~hidden_test_executed, "hidden_tests_not_executed")
        \o When((\E sr \in session : sr.change_injected) /\ "change_prompt" \notin types,
                "missing_change_prompt_event")
        \o When(~WorkerProgressEvidence(session, a.git, a.tak), "no_worker_progress_evidence")

\* validity_checks
ValidityChecks(session, types, a) ==
    [worker_log_present |-> a.worker_log_present,
     commands_log_present |-> a.commands_log_present,
     session_result_present |-> session # {},
     worker_start_event_present |-> "worker_start" \in types,
     worker_ready_event_present |-> "worker_ready" \in types,
     initial_prompt_event_present |-> "initial_prompt" \in types,
     public_test_executed |-> test_command_executed({a.public_result}),
     hidden_test_executed |-> test_command_executed(a.hidden_result),
     worker_ready_success |-> \E sr \in session : sr.worker_ready = TRUE,
     change_prompt_event_present |->
        IF \E sr \in session : sr.change_injected
          THEN {"change_prompt" \in types} ELSE {},
     worker_progress_evidence |-> WorkerProgressEvidence(session, a.git, a.tak)]

ValidAlways(invalid_reasons) == TRUE

\* "valid": len(invalid_reasons) == 0
Valid(invalid_reasons) == Len(invalid_reasons) = 0

\* the report main() writes to report.json
Report(session, log, scores, a) ==
    LET types == CommandEventTypes(log)
        invalid_reasons == InvalidReasons(session, types, a)
    IN  [session |-> session,
         tests |-> [public |-> a.public_result, hidden |-> a.hidden_result,
                    hidden_command |-> a.hidden_command],
         metrics |-> [tak |-> a.tak, git |-> a.git],
         scores |-> scores,
         checks |-> ValidityChecks(session, types, a),
         command_event_count |-> Len(log),
         command_event_types |-> types,
         valid |-> Valid(invalid_reasons),
         invalid_reasons |-> invalid_reasons]

\* the validity checks, report.json, the printed summary and `return 0`
WriteReport ==
    /\ pc = "validity"
    /\ report' = {Report(session_result, commands_log, scores, a) :
                    scores \in score_report, a \in report_in}
    /\ return_code' = 0
    /\ pc' = "done"
    /\ UNCHANGED report_in
    /\ UNCHANGED << clock, pane, worker_text, commands_log, tmux_step, raised,
                    session_result, session_killed >>
    /\ UNCHANGED ready_vars
    /\ UNCHANGED loop_vars
    /\ UNCHANGED score_vars
    /\ UNCHANGED << keep_tmux_session, hidden_config >>
    /\ UNCHANGED << tasks_vars, git_vars >>

\* the outcomes of the public test command: passed, failed, ended with the
\* shell's "command not found", timed out, or was a blank command line
PublicResults ==
    {ExecResult(<< "p" >>, 0, FALSE), ExecResult(<< "p" >>, 1, FALSE),
     ExecResult(<< "p" >>, CommandNotFound, FALSE),
     ExecResult(<< "p" >>, TimeoutExitCode, TRUE),
     ExecResult(<< "_" >>, 0, FALSE)}

\* hidden_result: None when there is no hidden command, else its outcome
HiddenResults ==
    {{}} \cup {{ExecResult(<< "h" >>, code, FALSE)} : code \in {0, 1, CommandNotFound}}

\* tak.history_event_count of a task store whose history holds start and finish events
WithHistoryCount(tak) ==
    [k \in DOMAIN tak \cup {"history_event_count"} |->
        IF k = "history_event_count"
          THEN tak.history_event_counts.start + tak.history_event_counts.finish
          ELSE tak[k]]

\* collect_tak_metrics of a store whose tasks were all removed after one was started
TasksRemovedMetrics ==
    [task_count |-> 0, epic_count |-> 0, child_count |-> 0, dependency_edges |-> 0,
     status_counts |-> [in_progress |-> 0, done |-> 0],
     history_event_counts |-> [start |-> 1, finish |-> 0],
     verification_result_count |-> 0, tasks_modified_after_change |-> 0,
     history_events_after_change |-> 0, contract_task_count |-> 0,
     contract_verification_task_count |-> 0, context_count |-> 0,
     learning_count |-> 0, normalization_issues |-> 0]

ReportTakMetrics ==
    {WithHistoryCount(tak) : tak \in {t \in TakMetrics : t.task_count # 2}
                                       \cup {TasksRemovedMetrics}}

\* commands.jsonl as load_jsonl reads it after the run: each of the four event
\* types the checks look for is there or not
LogWith(types) ==
    When("worker_start" \in types, Event("worker_start"))
    \o When("worker_ready" \in types, Event("worker_ready"))
    \o When("initial_prompt" \in types, Event("initial_prompt"))
    \o When("change_prompt" \in types, Event("change_prompt"))

\* main() has run the tests and collected the metrics of a run whose driver
\* returned a SessionResult; the hidden command is missing only where the
\* check before the run lets that pass
ReportInit ==
    /\ pc = "run_scoring"
    /\ \E worker_ready \in BOOLEAN, injected \in BOOLEAN, done \in BOOLEAN :
         session_result =
            {[start_epoch |-> 0, end_reason |-> "time_budget_reached",
              worker_ready |-> worker_ready,
              worker_ready_reason |-> IF worker_ready THEN "no_wait" ELSE "timeout",
              change_injected |-> injected,
              change_injected_epoch |-> IF injected THEN 0 ELSE -1,
              phase1_done_seen |-> done, final_done_seen |-> done,
              public_probe_pass |-> FALSE, probe_results |-> << >>]}
    /\ \E types \in SUBSET {"worker_start", "worker_ready", "initial_prompt", "change_prompt"} :
         commands_log = LogWith(types)
    /\ \E worker_log_present \in BOOLEAN, commands_log_present \in BOOLEAN,
          public_result \in PublicResults, hidden_result \in HiddenResults,
          hidden_tests_required \in BOOLEAN, allow_missing_hidden_tests \in BOOLEAN,
          tak \in ReportTakMetrics, commit_count \in {0, 2} :
            /\ commands_log # << >> => commands_log_present
            /\ ~(hidden_tests_required /\ hidden_result = {} /\ ~allow_missing_hidden_tests)
            /\ report_in =
                 {[worker_log_present |-> worker_log_present,
                   commands_log_present |-> commands_log_present,
                   public_result |-> public_result, hidden_result |-> hidden_result,
                   hidden_command |-> hidden_result # {},
                   hidden_tests_required |-> hidden_tests_required,
                   allow_missing_hidden_tests |-> allow_missing_hidden_tests,
                   tak |-> tak, git |-> GitMetrics(commit_count, "small_steps")]}
    /\ hidden_config =
         CHOOSE config \in {HiddenConfig(a.hidden_tests_required, << >>,
                                          IF a.hidden_command THEN << "h" >> ELSE << >>,
                                          a.allow_missing_hidden_tests) :
                               a \in report_in} : TRUE
    /\ score_in =
         {[scoring |-> [k \in {} |-> 0], public_result |-> a.public_result,
           hidden_result |-> a.hidden_result, change_probe_result |-> {},
           tak |-> a.tak, git |-> a.git, transcript |-> TranscriptMetrics(a.tak, 0),
           change_injected |-> sr.change_injected,
           change_injected_epoch |-> sr.change_injected_epoch] :
             a \in report_in, sr \in session_result}
    /\ score_report = {}
    /\ report = {}
    /\ return_code = -1
    /\ SessionGone
    /\ TasksIdle
    /\ GitIdle

ReportNext == RunScoring \/ WriteReport

ReportSpec == ReportInit /\ [][ReportNext]_vars

(* ----------------------- main(): the whole run -------------------------- *)
\* what the agent left behind: nothing, with a failing public test, or a
\* well-kept task store with history and two small commits, with a passing one
Leavings ==
    {[tak |-> WithHistoryCount(tak), git |-> GitMetrics(commit_count, "small_steps"),
      public_result |-> ExecResult(<< "p" >>, 1, FALSE)] :
        tak \in {t \in TakMetrics : t.task_count = 0}, commit_count \in {0}}
    \cup
    {[tak |-> WithHistoryCount(tak), git |-> GitMetrics(commit_count, "small_steps"),
      public_result |-> ExecResult(<< "p" >>, 0, FALSE)] :
        tak \in {t \in TakMetrics : t.task_count = 5}, commit_count \in {2}}

\* run_tests_and_probes, the two logs and the three metrics, after the driver
\* has returned: the public test runs, the objective asks for no hidden test
\* and no change probe, the pane log holds what the driver pasted
RunTestsAndCollect ==
    /\ pc = "post_run"
    /\ \E left \in Leavings, hidden_result \in HiddenResults :
         /\ hidden_result # {} <=> effective_hidden_cmd(hidden_config) # << >>
         /\ report_in' =
              {[worker_log_present |-> TRUE,
                commands_log_present |-> commands_log # << >>,
                public_result |-> left.public_result, hidden_result |-> hidden_result,
                hidden_command |-> effective_hidden_cmd(hidden_config) # << >>,
                hidden_tests_required |-> hidden_config.hidden_tests_required,
                allow_missing_hidden_tests |-> hidden_config.allow_missing_hidden_tests,
                tak |-> left.tak, git |-> left.git]}
         /\ score_in' =
              {[scoring |-> [k \in {} |-> 0], public_result |-> left.public_result,
                hidden_result |-> hidden_result, change_probe_result |-> {},
                tak |-> left.tak, git |-> left.git,
                transcript |-> TranscriptMetrics(left.tak, 0),
                change_injected |-> sr.change_injected,
                change_injected_epoch |-> sr.change_injected_epoch] :
                  sr \in session_result}
    /\ pc' = "run_scoring"
    /\ UNCHANGED << score_report, report, return_code >>
    /\ UNCHANGED << clock, pane, worker_text, commands_log, tmux_step, raised,
                    session_result, session_killed >>
    /\ UNCHANGED ready_vars
    /\ UNCHANGED loop_vars
    /\ UNCHANGED << tasks_vars, git_vars >>
    /\ UNCHANGED << keep_tmux_session, hidden_config >>

MainNext == Next \/ RunTestsAndCollect \/ RunScoring \/ WriteReport

MainSpec == Init /\ [][MainNext]_vars

(* --------------- main(): the hidden-command check and the run ------------ *)
\* --hidden-test-cmd as typed: not given, blank, or a command
HiddenTestCmds == {<< >>, << "_" >>, << "h" >>}

\* main() has parsed its arguments and loaded the objective; no run directory,
\* repository or session exists yet
HarnessInit ==
    /\ pc = "hidden_check"
    /\ \E required \in BOOLEAN, override \in HiddenTestCmds,
          command \in {<< >>, << "h" >>}, allow \in BOOLEAN :
            hidden_config = HiddenConfig(required, override, command, allow)
    /\ pane = "none"
    /\ clock = 0
    /\ worker_text = {}
    /\ commands_log = << >>
    /\ tmux_step = << >>
    /\ raised = FALSE
    /\ transport = None
    /\ ready_strategy = None
    /\ ready_started = 0
    /\ ready_deadline = 0
    /\ ready_state = {}
    /\ start_epoch = 0
    /\ min_change_seconds = 0
    /\ target_change_seconds = 0
    /\ budget_seconds = 0
    /\ probe_interval = 0
    /\ next_public_probe_at = 0
    /\ now = 0
    /\ elapsed = 0
    /\ change_injected = FALSE
    /\ change_injected_epoch = -1
    /\ phase1_done_seen = FALSE
    /\ final_done_seen = FALSE
    /\ public_probe_pass = FALSE
    /\ probe_results = << >>
    /\ end_reason = None
    /\ probe_running = FALSE
    /\ iter_probes = 0
    /\ last_probe_now = -1
    /\ change_sends = 0
    /\ session_result = {}
    /\ session_killed = FALSE
    /\ keep_tmux_session = {}
    /\ score_in = {}
    /\ score_report = {}
    /\ TasksIdle
    /\ GitIdle
    /\ ReportIdle

\* main(): a required hidden command that is missing and not allowed to be
\* missing ends the program with code 2; otherwise main() goes on to the run
CheckHiddenCommand ==
    /\ pc = "hidden_check"
    /\ IF hidden_command_missing(hidden_config)
         THEN pc' = "exit_early" /\ return_code' = 2
         ELSE pc' = "run_session" /\ return_code' = return_code
    /\ UNCHANGED << clock, pane, worker_text, commands_log, tmux_step, raised,
                    session_result, session_killed >>
    /\ UNCHANGED ready_vars
    /\ UNCHANGED loop_vars
    /\ UNCHANGED score_vars
    /\ UNCHANGED << tasks_vars, git_vars, report_in, report >>
    /\ UNCHANGED << keep_tmux_session, hidden_config >>

\* main() from setup_run_dirs to the end of the finally block, for a run whose
\* driver returned a SessionResult at the time budget and whose session was
\* killed; the driver's locals are gone with its frame
RunSession ==
    /\ pc = "run_session"
    /\ \E worker_ready \in BOOLEAN, injected \in BOOLEAN :
         /\ session_result' =
              {[start_epoch |-> 0, end_reason |-> "time_budget_reached",
                worker_ready |-> worker_ready,
                worker_ready_reason |-> IF worker_ready THEN "no_wait" ELSE "timeout",
                change_injected |-> injected,
                change_injected_epoch |-> IF injected THEN 0 ELSE -1,
                phase1_done_seen |-> FALSE, final_done_seen |-> FALSE,
                public_probe_pass |-> FALSE, probe_results |-> << >>]}
         /\ commands_log' =
              << Event("setup"), Event("setup"), Event("setup"), Event("worker_start"),
                 Event("worker_ready"), Event("initial_prompt") >>
              \o When(injected, Event("change_prompt"))
    /\ pane' = "gone"
    /\ session_killed' = TRUE
    /\ keep_tmux_session' = {FALSE}
    /\ pc' = "post_run"
    /\ UNCHANGED << clock, worker_text, tmux_step, raised >>
    /\ UNCHANGED ready_vars
    /\ UNCHANGED loop_vars
    /\ UNCHANGED score_vars
    /\ UNCHANGED analysis_vars
    /\ UNCHANGED hidden_config

HarnessNext ==
    CheckHiddenCommand \/ RunSession \/ RunTestsAndCollect \/ RunScoring \/ WriteReport

HarnessSpec == HarnessInit /\ [][HarnessNext]_vars

(* ------------------- run_scoring over task-store shapes ----------------- *)
\* most tasks of one status in a task store
MaxTasksPerStatus == 5

\* collect_tak_metrics of a store with tasks that are pending, in progress and
\* done, and a history with start and finish events
TakStore(pending, in_progress, done_count, starts, finishes) ==
    [task_count |-> pending + in_progress + done_count,
     epic_count |-> 0, child_count |-> 0, dependency_edges |-> 0,
     status_counts |-> [in_progress |-> in_progress, done |-> done_count],
     history_event_counts |-> [start |-> starts, finish |-> finishes],
     verification_result_count |-> 0, tasks_modified_after_change |-> 0,
     history_events_after_change |-> 0, contract_task_count |-> 0,
     contract_verification_task_count |-> 0, context_count |-> 0,
     learning_count |-> 0, normalization_issues |-> 0]

\* run_scoring is called for a run that passed its public test, with the
\* default weights, one small commit and any task store
LifecycleInit ==
    /\ pc = "run_scoring"
    /\ \E pending \in {0, 1}, in_progress \in 0..MaxTasksPerStatus,
          done_count \in 0..MaxTasksPerStatus, starts \in {0, 1}, finishes \in {0, 1} :
         LET tak == TakStore(pending, in_progress, done_count, starts, finishes)
         IN  score_in =
               {[scoring |-> [k \in {} |-> 0], public_result |-> [exit_code |-> 0],
                 hidden_result |-> {}, change_probe_result |-> {},
                 tak |-> tak, git |-> GitMetrics(1, "small_steps"),
                 transcript |-> TranscriptMetrics(tak, 0),
                 change_injected |-> FALSE, change_injected_epoch |-> -1]}
    /\ score_report = {}
    /\ DriverReturned
    /\ hidden_config = NoHiddenTests
    /\ TasksIdle
    /\ GitIdle
    /\ ReportIdle

LifecycleNext == RunScoring

LifecycleSpec == LifecycleInit /\ [][LifecycleNext]_vars

(* ------------- collect_git_metrics followed by run_scoring -------------- *)
\* main() hands the collected git metrics to run_scoring, for a run that
\* passed its public test and left no task store, under the default weights
PassGitMetrics ==
    /\ pc = "git_collected"
    /\ score_in' =
         {[scoring |-> [k \in {} |-> 0], public_result |-> [exit_code |-> 0],
           hidden_result |-> {}, change_probe_result |-> {},
           tak |-> TakStore(0, 0, 0, 0, 0), git |-> g,
           transcript |-> TranscriptMetrics(TakStore(0, 0, 0, 0, 0), 0),
           change_injected |-> git_in.change_epoch # {},
           change_injected_epoch |-> IF git_in.change_epoch = {} THEN -1 ELSE 1] :
             g \in git_metrics}
    /\ pc' = "run_scoring"
    /\ UNCHANGED score_report
    /\ UNCHANGED << clock, pane, worker_text, commands_log, tmux_step, raised,
                    session_result, session_killed >>
    /\ UNCHANGED ready_vars
    /\ UNCHANGED loop_vars
    /\ UNCHANGED analysis_vars
    /\ UNCHANGED << keep_tmux_session, hidden_config >>

GitScoringNext == CollectGitMetrics \/ PassGitMetrics \/ RunScoring

GitScoringSpec == GitMetricsInit /\ [][GitScoringNext]_vars

(* ------------------------------ properties ----------------------------- *)
\* positions inside the main loop of drive_worker_session
LoopPcs == {"loop_top", "probe_check", "probe_wait", "change", "liveness", "end_check"}

\* positions of an iteration after the change trigger was evaluated
AfterChangePcs == {"liveness", "end_check"}

EventCount(type) ==
    Cardinality({i \in DOMAIN commands_log : commands_log[i].type = type})

SomeProbePassed == \E i \in DOMAIN probe_results : probe_results[i].passed

\* the last step ran tmux commands and one of them failed
FailedCmds(step) == {step[i].cmd : i \in {j \in DOMAIN step : ~step[j].ok}}

\* C1: the change prompt is sent at most once in a run: it is pasted into the
\* pane at most once and logged at most once, whatever later iterations see.
C1_ChangePromptAtMostOnce ==
    /\ change_sends <= 1
    /\ EventCount("change_prompt") <= 1

\* an iteration after the one that injected, with the trigger still true
C1_Witness ==
    /\ pc = "liveness"
    /\ change_injected
    /\ change_injected_epoch < now
    /\ elapsed >= min_change_seconds
    /\ phase1_done_seen
    /\ change_sends = 1

\* C2: after the trigger was evaluated in an iteration, the change prompt has
\* been injected iff elapsed >= minChangeSeconds and (phase-1 token seen or a
\* probe passed or elapsed >= targetChangeSeconds); as that condition only
\* becomes true once, the injection is in the first iteration where it holds
\* and never in one with elapsed < minChangeSeconds.
C2_InjectedIffTriggered ==
    (pc \in AfterChangePcs) =>
        (change_injected <=>
            /\ elapsed >= min_change_seconds
            /\ \/ phase1_done_seen
               \/ SomeProbePassed
               \/ elapsed >= target_change_seconds)

\* minChangeSeconds > targetChangeSeconds, the phase-1 token seen, and the
\* injection made in this iteration, the first with elapsed >= minChangeSeconds
C2_Witness ==
    /\ pc = "liveness"
    /\ min_change_seconds > target_change_seconds
    /\ phase1_done_seen
    /\ change_injected
    /\ change_injected_epoch >= now
    /\ elapsed = min_change_seconds

\* C3: every SessionResult has an end reason among timeout, worker_pane_dead
\* and final_done_token_seen, a run that ends on its time budget reporting
\* timeout.
C3_EndReasonEnum ==
    \A r \in session_result :
        r.end_reason \in {"timeout", "worker_pane_dead", "final_done_token_seen"}

\* C4: a run ends with reason final_done_token_seen only if the change prompt
\* was injected and the final done token seen.
C4_FinalDoneNeedsChange ==
    \A r \in session_result :
        (r.end_reason = "final_done_token_seen") =>
            (r.change_injected /\ r.final_done_seen)

\* the loop goes into a further iteration with the final token seen and no
\* change injected yet
C4_Witness ==
    /\ pc = "loop_top"
    /\ final_done_seen
    /\ ~change_injected

\* C5: a pane that died after the initial prompt was delivered never makes
\* the driver raise: the run ends by returning a SessionResult. (A pane that
\* is gone while the main loop runs was alive when the initial prompt was
\* pasted, as pasting into a pane that is gone fails.)
C5_PaneDeathNeverAborts ==
    [][(pc \in LoopPcs /\ pane = "gone") => ~raised']_vars

\* C6: phase1_done_seen and final_done_seen are sticky: once true, a flag is
\* true after every later step of the loop and in the returned SessionResult.
C6_DoneFlagsSticky ==
    [][ /\ phase1_done_seen =>
            IF pc' \in LoopPcs THEN phase1_done_seen'
            ELSE raised' \/ (\A r \in session_result' : r.phase1_done_seen)
        /\ final_done_seen =>
            IF pc' \in LoopPcs THEN final_done_seen'
            ELSE raised' \/ (\A r \in session_result' : r.final_done_seen) ]_vars

\* the transcript just read no longer holds a token whose flag is set
C6_Witness ==
    /\ pc = "probe_check"
    /\ phase1_done_seen
    /\ "phase1" \notin worker_text
    /\ final_done_seen
    /\ "final" \notin worker_text

\* C7: a probe starts only in an iteration whose now is at least start +
\* interval and at least the now of the previous probe's iteration + interval,
\* the deadline being that iteration's now + interval.
C7_ProbeDriftTolerant ==
    /\ [](pc \in LoopPcs =>
            next_public_probe_at =
                IF last_probe_now = -1 THEN start_epoch + probe_interval
                ELSE last_probe_now + probe_interval)
    /\ [][(pc = "probe_check" /\ probe_running') =>
            /\ now >= start_epoch + probe_interval
            /\ (last_probe_now # -1) => (now >= last_probe_now + probe_interval)]_vars

\* a second probe that starts later than its deadline
C7_Witness ==
    /\ pc = "probe_wait"
    /\ last_probe_now # -1
    /\ now > next_public_probe_at

\* C8: a probe executes only while the driver waits for it: at most one
\* probe per iteration, none running when the next is considered, when the
\* change trigger is evaluated or when a prompt is sent.
C8_NoOverlappingProbes ==
    /\ probe_running => pc = "probe_wait"
    /\ iter_probes <= 1
    /\ (pc \in LoopPcs /\ iter_probes = 1 /\ ~probe_running) =>
            (Len(probe_results) >= 1 /\ last_probe_now = now)

\* the change prompt falls due in an iteration whose probe has returned
C8_Witness ==
    /\ pc = "change"
    /\ iter_probes = 1
    /\ ~probe_running
    /\ Len(probe_results) = 1
    /\ InjectDue

\* C9: a probe with a nonzero exit code, a timeout included, is recorded with
\* passed = false in probe_results and in the log, and the loop proceeds to
\* the change trigger: nothing is raised and end reason, change_injected and
\* public_probe_pass stay as they were.
C9_ProbeFailureNotFatal ==
    [][(Len(probe_results') = Len(probe_results) + 1) =>
        LET outcome == probe_results'[Len(probe_results')]
        IN  (outcome.exit_code # 0) =>
                /\ ~outcome.passed
                /\ commands_log' = Append(commands_log, outcome)
                /\ pc' = "change"
                /\ ~raised'
                /\ session_result' = {}
                /\ UNCHANGED << end_reason, change_injected, public_probe_pass >>]_vars

\* a timed-out probe is on record and the loop is past it
C9_Witness ==
    /\ pc = "end_check"
    /\ Len(probe_results) >= 1
    /\ probe_results[Len(probe_results)].exit_code = 124
    /\ ~probe_results[Len(probe_results)].passed

SendCmds == {"send_line", "send_enter", "load_buffer", "paste_buffer"}

PaneInputCmds == {"send_line", "paste_buffer", "send_enter"}

DeliveredCmds(step) == {step[i].cmd : i \in {j \in DOMAIN step : step[j].ok}}

\* C11: every step of the driver that delivered input to the agent pane
\* appended exactly one entry to the command log in that same step, so the
\* log of a run that crashes has an entry for everything the pane received.
C11_LogMatchesTransport ==
    [][(pc' # pc /\ DeliveredCmds(tmux_step') \cap PaneInputCmds # {}) =>
            Len(commands_log') = Len(commands_log) + 1]_vars

\* wait_for_worker_ready has returned ready=false, reason ready_token_timeout
TokenTimedOut ==
    /\ ready_state # {}
    /\ \A r \in ready_state :
            ~r.ready /\ r.strategy = "token" /\ r.reason = "ready_token_timeout"

\* C12: with strategy token, a poll that has not seen the token goes on
\* waiting before the deadline and returns ready=false with reason
\* ready_token_timeout at the first poll at or after the deadline; the run is
\* not aborted for it: worker_ready is logged, the initial prompt is sent and,
\* when its paste succeeds, the main loop is entered. After a token timeout
\* only a failing send aborts the run.
C12_TokenTimeoutNotFatal ==
    /\ [][(pc = "ready_poll" /\ "ready" \notin worker_text') =>
            IF clock < ready_deadline
              THEN pc' = "ready_poll" /\ ready_state' = {} /\ ~raised'
              ELSE /\ pc' \in {"ready_poll", "log_ready"}
                   /\ pc' = "log_ready" =>
                        /\ TokenTimedOut'
                        /\ clock' >= ready_deadline
                        /\ clock' < ready_deadline + ReadyPollSleep
                        /\ ~raised']_vars
    /\ [][(TokenTimedOut /\ pc = "log_ready" /\ pc' # pc) =>
            /\ pc' = "initial_prompt"
            /\ commands_log' = Append(commands_log, Event("worker_ready"))
            /\ ~raised']_vars
    /\ [][(TokenTimedOut /\ pc = "initial_prompt" /\ pc' # pc) =>
            /\ Len(tmux_step') >= 1 /\ tmux_step'[1].cmd = "load_buffer"
            /\ RunOk(tmux_step') =>
                    /\ pc' = "start_loop"
                    /\ commands_log' = Append(commands_log, Event("initial_prompt"))]_vars
    /\ [][(TokenTimedOut /\ pc = "start_loop" /\ pc' # pc) => pc' = "loop_top"]_vars
    /\ [][(TokenTimedOut' /\ raised' /\ ~raised) =>
            FailedCmds(tmux_step') \cap SendCmds # {}]_vars

\* the token never appeared, the wait timed out and the main loop is running
C12_Witness ==
    /\ TokenTimedOut
    /\ pc = "loop_top"
    /\ ~raised
    /\ EventCount("worker_ready") = 1
    /\ EventCount("initial_prompt") = 1

\* C13: a run whose configured prompt transport is not buffer-paste is
\* rejected before anything was sent to the agent pane and before a tmux
\* session exists: its command log is empty and there is no session to kill.
C13_RejectedBeforeSessionStart ==
    (transport \notin {None, "tmux_buffer_paste"}) =>
        /\ commands_log = << >>
        /\ ~session_killed

EndReasons == {"worker_pane_dead", "final_done_token_seen", "time_budget_reached"}

\* C14: when every step of the driver returns, the driver leaves
\* drive_worker_session, so the main loop, once entered, ends. An
\* iteration that started with elapsed >= budget_seconds is the last one, and
\* the loop is left only by returning with pane death, the final token after
\* the change injection or the time budget as end reason, or by a failing
\* send that raises.
C14_LoopTerminates ==
    /\ <>(pc \in {"capture", "finally", "post_run", "exit_error"})
    /\ [][(pc \in LoopPcs /\ pc # "loop_top" /\ elapsed >= budget_seconds) =>
            pc' # "loop_top"]_vars
    /\ [][(pc \in LoopPcs /\ pc' \notin LoopPcs) =>
            \/ /\ raised'
               /\ session_result' = {}
               /\ FailedCmds(tmux_step') \cap SendCmds # {}
            \/ /\ ~raised'
               /\ session_result' # {}
               /\ \A r \in session_result' :
                    /\ r.end_reason \in EndReasons
                    /\ r.end_reason = "worker_pane_dead" => pc = "liveness"
                    /\ r.end_reason = "final_done_token_seen" =>
                            change_injected /\ final_done_seen
                    /\ r.end_reason = "time_budget_reached" =>
                            elapsed >= budget_seconds]_vars

\* the loop ran into its time budget after more than one iteration
C14_Witness ==
    /\ pc = "capture"
    /\ \E r \in session_result :
            /\ r.end_reason = "time_budget_reached"
            /\ Len(r.probe_results) >= 2

HiddenPassing == {[exit_code |-> 0]}

\* C16: a report scored with a failing or missing hidden test has a functional
\* score no greater than the report of the same arguments with the hidden
\* test passing, for every weight map.
C16_HiddenPassMonotonic ==
    \A a \in score_in, r \in score_report :
        ~r.functional.hidden_pass =>
            run_scoring([a EXCEPT !.hidden_result = HiddenPassing]).functional.score
                >= r.functional.score

\* C17: totals.clamped of every ScoreReport is >= 0.
C17_ClampedNonNegative ==
    \A r \in score_report : r.totals.clamped >= 0

\* a report whose penalties exceed its category scores and bonus
C17_Witness ==
    \E r \in score_report : r.totals.raw < 0 /\ r.totals.clamped = 0

C19_TamperingPenalty ==
    \A a \in score_in, r \in score_report :
        LET n == r.penalties.manual_tak_edit_incidents
            first == Get(a.scoring, "penalty_manual_tak_first", 20)
            additional == Get(a.scoring, "penalty_manual_tak_additional", 10)
            cap == Get(a.scoring, "penalty_manual_tak_cap", 40)
            penalty == r.penalties.components.manual_tak_edits
        IN  /\ n = a.transcript.manual_tak_edit_evidence + a.tak.normalization_issues
            /\ n = 0 => penalty = 0
            /\ n >= 1 => penalty = Min(cap, first + (n - 1) * additional)
            /\ a.scoring = [k \in {} |-> 0] =>
                    /\ n = 1 => penalty = 20
                    /\ n = 2 => penalty = 30
                    /\ n >= 3 => penalty = 40

\* five incidents under the default penalties: the cap holds
C19_Witness ==
    \E a \in score_in, r \in score_report :
        /\ a.scoring = [k \in {} |-> 0]
        /\ r.penalties.manual_tak_edit_incidents = 5
        /\ r.penalties.components.manual_tak_edits = 40

\* C20: zero commits give git_discipline 0 and no_commits 30 (few_commits 0),
\* one to three commits give few_commits 10 (no_commits 0), four or more give
\* neither penalty.
C20_CommitCountPenalties ==
    \A a \in score_in, r \in score_report :
        LET commit_count == a.git.commit_count
            no_commits == r.penalties.components.no_commits
            few_commits == r.penalties.components.few_commits
        IN  /\ commit_count = 0 =>
                    r.git_discipline.score = 0 /\ no_commits = 30 /\ few_commits = 0
            /\ commit_count \in 1..3 => no_commits = 0 /\ few_commits = 10
            /\ commit_count >= 4 => no_commits = 0 /\ few_commits = 0

\* a run without commits scored under a negative git_discipline weight: the
\* score is 0, not the weight
C20_Witness ==
    \E a \in score_in, r \in score_report :
        /\ a.git.commit_count = 0
        /\ r.git_discipline.max < 0
        /\ r.git_discipline.score = 0
        /\ r.penalties.components.no_commits = 30

C22_FunctionalScore ==
    \A a \in score_in, r \in score_report :
        LET w_public == Get(a.scoring, "functional_public", 15)
            w_hidden == Get(a.scoring, "functional_hidden", 30)
            public_ok == a.public_result.exit_code = 0
            hidden_ok == \E h \in a.hidden_result : h.exit_code = 0
        IN  /\ r.functional.score =
                    (IF public_ok THEN w_public ELSE 0) + (IF hidden_ok THEN w_hidden ELSE 0)
            /\ r.functional.max = w_public + w_hidden
            /\ r.functional.public_pass = public_ok
            /\ r.functional.hidden_pass = hidden_ok
            /\ (a.scoring = [k \in {} |-> 0] /\ public_ok
                /\ a.hidden_result = {[exit_code |-> 1]}) =>
                    r.functional.score = 15 /\ r.functional.max = 45

\* default weights, public tests pass, hidden tests fail: 15 of 45
C22_Witness ==
    \E a \in score_in, r \in score_report :
        /\ a.scoring = [k \in {} |-> 0]
        /\ a.public_result.exit_code = 0
        /\ a.hidden_result = {[exit_code |-> 1]}
        /\ r.functional.score = 15
        /\ r.functional.max = 45

\* C23: in every ScoreReport totals.core is the sum of the four core category
\* scores of the same report, totals.raw = core + bonus score - penalties
\* score, and totals.clamped = max(0, raw).
C23_TotalsFromCategories ==
    \A r \in score_report :
        LET core == r.functional.score + r.tak_workflow.score + r.git_discipline.score
                    + r.change_adaptation.score
            raw == core + r.bonus.score - r.penalties.score
        IN  /\ r.totals.core = core
            /\ r.totals.bonus = r.bonus.score
            /\ r.totals.penalties = r.penalties.score
            /\ r.totals.raw = raw
            /\ r.totals.clamped = (IF raw > 0 THEN raw ELSE 0)

\* a report in which every category, the bonus and the penalties contribute
C23_Witness ==
    \E r \in score_report :
        /\ r.functional.score > 0
        /\ r.tak_workflow.score > 0
        /\ r.git_discipline.score > 0
        /\ r.change_adaptation.score > 0
        /\ r.bonus.score > 0
        /\ r.penalties.score > 0
        /\ r.totals.clamped > 0

TakComponentSum(r) ==
    r.tak_workflow.components.early_adoption + r.tak_workflow.components.planning_structure
    + r.tak_workflow.components.lifecycle_hygiene
    + r.tak_workflow.components.verification_discipline

GitComponentSum(r) ==
    r.git_discipline.components.cadence + r.git_discipline.components.atomicity
    + r.git_discipline.components.message_quality

ChangeComponentSum(r) ==
    r.change_adaptation.components.replan_after_change
    + r.change_adaptation.components.implement_and_validate_change
    + r.change_adaptation.components.close_loop

BonusComponentSum(r) ==
    r.bonus.components.contract_richness + r.bonus.components.verify_usage
    + r.bonus.components.context_or_learnings

\* the smaller of a category's max and the sum of its reported components
Clamped(category_max, component_sum) ==
    IF component_sum <= category_max THEN component_sum ELSE category_max

C29_LogAppendOnly ==
    [][/\ Len(commands_log') \in {Len(commands_log), Len(commands_log) + 1}
       /\ \A i \in DOMAIN commands_log : commands_log'[i] = commands_log[i]]_vars

\* a log that holds probe and change-prompt entries after the six of the set-up
C29_Witness ==
    /\ pc = "post_run"
    /\ Len(commands_log) >= 9
    /\ EventCount("change_prompt") = 1
    /\ EventCount("public_probe") >= 2

\* files of the scan that do not hold a task object
InvalidFiles == {i \in 1..Len(task_files) : task_files[i].content # "object"}

\* C24: load_tasks never aborts on a task file with invalid content: the scan runs
\* to its end, and when it returns each such file has contributed exactly one
\* invalid_json issue and no entry of tasks
C24_InvalidFileNeverAborts ==
    /\ pc # "exit_error"
    /\ pc = "tasks_loaded" =>
         /\ \A i \in InvalidFiles :
              Cardinality({k \in 1..Len(normalization_issues) :
                             normalization_issues[k] = Issue(i, "invalid_json")}) = 1
         /\ Len(tasks) = Len(task_files) - Cardinality(InvalidFiles)

\* the value of a ratio of collect_git_metrics lies in [0, 1]
InUnitInterval(r) == (r.den = 0 /\ r.num = 0) \/ (r.den > 0 /\ 0 <= r.num /\ r.num <= r.den)

\* the value of a ratio of collect_git_metrics is 1
IsOne(r) == r.den > 0 /\ r.num = r.den

\* C25 as stated: for every commit list small_commit_ratio is in [0,1], and it
\* equals 1 when every commit touches at most 3 files
C25_SmallCommitRatio ==
    \A g \in git_metrics :
        /\ InUnitInterval(g.small_commit_ratio)
        /\ (\A i \in 1..Len(g.commits) : g.commits[i].file_count <= 3)
              => IsOne(g.small_commit_ratio)

\* C25: for every commit list small_commit_ratio is in [0,1]; it equals 1 when
\* there is at least one commit and every commit touches 1 to 3 files, it is
\* below 1 when some commit touches no file or more than 3, and it is 0 when
\* there is no commit
C25_SmallCommitRatioOneToThree ==
    \A g \in git_metrics :
        LET every_small == \A i \in 1..Len(g.commits) :
                              g.commits[i].file_count \in 1..3
        IN  /\ InUnitInterval(g.small_commit_ratio)
            /\ (g.commit_count > 0 /\ every_small) => IsOne(g.small_commit_ratio)
            /\ (g.commit_count > 0 /\ ~every_small) => ~IsOne(g.small_commit_ratio)
            /\ g.commit_count = 0 => g.small_commit_ratio = Ratio(0, 0)

\* two commits, one of 1 file and one of 3, have been measured
C25_Witness ==
    \E g \in git_metrics :
        /\ g.commit_count = 2
        /\ {g.commits[i].file_count : i \in 1..2} = {1, 3}
        /\ IsOne(g.small_commit_ratio)

\* the invalid reasons of a report, as a set
Reasons(r) == {r.invalid_reasons[i] : i \in 1..Len(r.invalid_reasons)}

\* the run of a report saw no done token, made no commit and left no task record
NoTokensCommitsTasks(r) ==
    /\ \A sr \in r.session : ~sr.phase1_done_seen /\ ~sr.final_done_seen
    /\ r.metrics.git.commit_count = 0
    /\ r.metrics.tak.task_count = 0

\* C21 as stated: a completed run in which no done token was seen, with zero
\* commits after the baseline and zero task records, is flagged invalid and its
\* invalid reasons include no_worker_progress_evidence
C21_NoProgressFlagged ==
    \A r \in report :
        NoTokensCommitsTasks(r)
            => ~r.valid /\ "no_worker_progress_evidence" \in Reasons(r)

\* C21: a completed run in which no done token was seen, with zero commits after
\* the baseline, zero task records and zero history events, is flagged invalid
\* and its invalid reasons include no_worker_progress_evidence; with at least
\* one history event the reason is not given
C21_NoProgressNoHistoryFlagged ==
    \A r \in report :
        NoTokensCommitsTasks(r)
            => IF r.metrics.tak.history_event_count = 0
                 THEN ~r.valid /\ "no_worker_progress_evidence" \in Reasons(r)
                 ELSE "no_worker_progress_evidence" \notin Reasons(r)

\* a report of a run without tokens, commits, tasks and history events, whose
\* only invalid reason is the missing progress evidence
C21_Witness ==
    \E r \in report :
        /\ NoTokensCommitsTasks(r)
        /\ r.metrics.tak.history_event_count = 0
        /\ r.invalid_reasons = << "no_worker_progress_evidence" >>

\* every reason main() can give
InvalidReasonNames ==
    {"missing_or_empty_worker_log", "missing_or_empty_commands_log",
     "missing_session_result", "missing_worker_start_event",
     "missing_initial_prompt_event", "missing_worker_ready_event",
     "worker_ready_check_failed", "public_tests_not_executed",
     "missing_hidden_test_command", "hidden_tests_not_executed",
     "missing_change_prompt_event", "no_worker_progress_evidence"}

\* C26: validity is advisory: once the driver has returned a SessionResult and the
\* run is scored, whatever checks fail, main() goes on to write the report
\* without raising and returns 0; the report holds the scores, valid is false
\* together with the reasons of the failed checks, and valid is true iff the
\* list of invalid reasons is empty
C26_ValidityAdvisory ==
    /\ pc = "validity" => ENABLED WriteReport
    /\ ~raised
    /\ pc = "done" =>
         /\ return_code = 0
         /\ Cardinality(report) = 1
         /\ \A r \in report :
              /\ r.scores \in score_report
              /\ r.valid <=> r.invalid_reasons = << >>
              /\ Reasons(r) \subseteq InvalidReasonNames
              /\ ~r.checks.worker_log_present
                    => "missing_or_empty_worker_log" \in Reasons(r)
              /\ ~r.checks.public_test_executed
                    => "public_tests_not_executed" \in Reasons(r)
              /\ ~r.checks.worker_progress_evidence
                    => "no_worker_progress_evidence" \in Reasons(r)

\* a report with five invalid reasons was written and main() returned 0
C26_Witness ==
    /\ pc = "done"
    /\ return_code = 0
    /\ \E r \in report : ~r.valid /\ Len(r.invalid_reasons) >= 5

\* C28: a public test result with a nonzero exit code that did not time out and is
\* not exit code 127 counts as executed and the report has no
\* public_tests_not_executed reason; a timed-out result or exit code 127 gives
\* that reason; a missing (hidden) result counts as not executed
C28_ExecutedAndFailed ==
    \A r \in report :
        LET public == r.tests.public
        IN  /\ (public.exit_code # 0 /\ ~public.timed_out
                  /\ public.exit_code # CommandNotFound)
               => /\ r.checks.public_test_executed
                  /\ "public_tests_not_executed" \notin Reasons(r)
            /\ (public.timed_out \/ public.exit_code = CommandNotFound)
               => /\ ~r.checks.public_test_executed
                  /\ "public_tests_not_executed" \in Reasons(r)
            /\ r.tests.hidden = {} => ~r.checks.hidden_test_executed

\* a report of a run whose public test ran and failed, and which is valid
C28_Witness ==
    \E r \in report :
        /\ r.tests.public.exit_code = 1
        /\ r.checks.public_test_executed
        /\ r.valid

\* C27: a run whose readiness wait reported ready=false is always flagged invalid
\* with reason worker_ready_check_failed, and a run with strategy delay or none
\* never carries that reason: its readiness outcome is always ready=true
C27_ReadyCheckFailedFlagged ==
    /\ ready_strategy \in {"delay", "none"} => \A s \in ready_state : s.ready
    /\ \A r \in report :
         /\ (\E s \in ready_state : ~s.ready)
               => ~r.valid /\ "worker_ready_check_failed" \in Reasons(r)
         /\ ready_strategy \in {"delay", "none"}
               => "worker_ready_check_failed" \notin Reasons(r)

\* the report of a run whose token wait timed out, and whose only invalid reason
\* is the failed readiness check
C27_Witness ==
    /\ TokenTimedOut
    /\ \E r \in report : r.invalid_reasons = << "worker_ready_check_failed" >>

\* C31: lifecycle_hygiene is 8 less min(4, in-progress count), less 2 if there are
\* tasks and no start event, less 2 if there are done tasks and no finish
\* event, and not below 0; it is always in 0..8, and a run with zero tasks and
\* no history events receives the full 8
C31_LifecycleHygiene ==
    \A a \in score_in, r \in score_report :
        LET tak == a.tak
            in_progress == tak.status_counts.in_progress
            no_start == tak.task_count > 0 /\ tak.history_event_counts.start = 0
            no_finish == tak.status_counts.done > 0 /\ tak.history_event_counts.finish = 0
            expected == 8 - Min(4, in_progress) - (IF no_start THEN 2 ELSE 0)
                          - (IF no_finish THEN 2 ELSE 0)
            got == r.tak_workflow.components.lifecycle_hygiene
        IN  /\ got = Max(0, expected)
            /\ got \in 0..8
            /\ (tak.task_count = 0 /\ tak.history_event_counts.start = 0
                  /\ tak.history_event_counts.finish = 0) => got = 8

\* a store with five tasks in progress, done tasks and an empty history scores 0
C31_Witness ==
    \E a \in score_in, r \in score_report :
        /\ a.tak.status_counts.in_progress = 5
        /\ a.tak.status_counts.done > 0
        /\ a.tak.history_event_counts = [start |-> 0, finish |-> 0]
        /\ r.tak_workflow.components.lifecycle_hygiene = 0

\* C32: the giant_final_commit penalty (8) is applied iff there is at least one
\* commit and the last commit's changed lines are more than 0.6 of the changed
\* lines of all commits; every run with exactly one commit that changes at
\* least one line receives it, and final_commit_ratio is 0 when the total of
\* changed lines is 0
C32_GiantFinalCommit ==
    /\ \A g \in git_metrics :
          SumLines(g.commits) = 0 => g.final_commit_ratio = Ratio(0, 0)
    /\ \A a \in score_in, r \in score_report :
          LET commits == a.git.commits
              n == Len(commits)
              total == SumLines(commits)
              dominant == n >= 1 /\ 10 * commits[n].lines_changed > 6 * total
              penalty == r.penalties.components.giant_final_commit
          IN  /\ penalty = IF dominant THEN 8 ELSE 0
              /\ (n = 1 /\ commits[1].lines_changed >= 1) => penalty = 8

\* a run with one commit of one line was scored and got the penalty
C32_Witness ==
    \E a \in score_in, r \in score_report :
        /\ a.git.commit_count = 1
        /\ a.git.commits[1].lines_changed = 1
        /\ r.penalties.components.giant_final_commit = 8

\* the event types the set-up of the driver logs before its main loop, in order
SetupOrder ==
    << "setup", "setup", "setup", "worker_start", "worker_ready", "initial_prompt" >>

\* C33: in every command log the driver writes, the events appear in the order
\* three setup events, one worker_start, one worker_ready, one initial_prompt,
\* and only then public_probe and change_prompt events; no probe runs and no
\* change prompt is sent before the initial prompt is in the log
C33_LogEventOrder ==
    /\ \A i \in 1..Len(commands_log) :
          IF i <= Len(SetupOrder)
            THEN commands_log[i].type = SetupOrder[i]
            ELSE commands_log[i].type \in {"public_probe", "change_prompt"}
    /\ (probe_running \/ probe_results # << >> \/ change_sends > 0
          \/ \E i \in 1..Len(tmux_step) : pc \in LoopPcs /\ tmux_step[i].cmd = "paste_buffer")
         => Len(commands_log) >= Len(SetupOrder)

\* a log with the six set-up events, then a probe and the change prompt
C33_Witness ==
    /\ Len(commands_log) >= 8
    /\ \E i, j \in 7..Len(commands_log) :
          /\ commands_log[i].type = "public_probe"
          /\ commands_log[j].type = "change_prompt"

\* change_prompt events of the command log
ChangePromptEvents == {i \in 1..Len(commands_log) : commands_log[i].type = "change_prompt"}

\* C34: whenever the driver has returned a SessionResult, its change_injected is
\* true iff the command log holds a change_prompt event, and then exactly one;
\* so no report written from the driver's own log carries the reason
\* missing_change_prompt_event
C34_ChangeInjectedIffLogged ==
    /\ \A sr \in session_result :
          /\ sr.change_injected <=> ChangePromptEvents # {}
          /\ Cardinality(ChangePromptEvents) <= 1
    /\ \A r \in report : "missing_change_prompt_event" \notin Reasons(r)

\* a report of a run that injected the change: the event is found in the log
C34_Witness ==
    \E r \in report :
        /\ \E sr \in r.session : sr.change_injected
        /\ r.checks.change_prompt_event_present = {TRUE}
        /\ Cardinality(ChangePromptEvents) = 1

\* C35: at every point of the main loop and in the returned SessionResult,
\* change_injected_epoch is set iff change_injected is true; once set it never
\* changes, and it is not earlier than start_epoch + min_change_seconds
C35_ChangeEpoch ==
    /\ [](pc \in LoopPcs =>
            /\ change_injected <=> change_injected_epoch # -1
            /\ change_injected => change_injected_epoch >= start_epoch + min_change_seconds)
    /\ [](\A sr \in session_result : sr.change_injected <=> sr.change_injected_epoch # -1)
    /\ [][(pc \in LoopPcs /\ pc' \in LoopPcs /\ change_injected_epoch # -1)
            => change_injected_epoch' = change_injected_epoch]_vars
    /\ [][(session_result = {} /\ session_result' # {}) =>
            \A sr \in session_result' :
                /\ sr.change_injected = change_injected
                /\ sr.change_injected_epoch = change_injected_epoch
                /\ sr.start_epoch = start_epoch]_vars

\* the loop goes on after a change that was injected later than the minimum
C35_Witness ==
    /\ pc = "probe_check"
    /\ min_change_seconds > 0
    /\ change_injected
    /\ change_injected_epoch > start_epoch + min_change_seconds
    /\ now > change_injected_epoch

\* the driver returns in this step (a step that leaves pc alone is the agent's)
Returns == session_result = {} /\ session_result' # {}

\* C36: when several termination conditions hold in the same iteration the end
\* reason follows a fixed priority: a pane that the liveness check finds dead
\* always ends the run with worker_pane_dead, whatever else holds; otherwise
\* a final token seen after the change ends it with final_done_token_seen,
\* also when the budget is exhausted; the time budget comes last
C36_EndReasonPriority ==
    /\ [][(pc = "liveness" /\ pc' # pc /\ pane # "alive") =>
            /\ Returns
            /\ \A sr \in session_result' : sr.end_reason = "worker_pane_dead"]_vars
    /\ [][(pc = "end_check" /\ pc' # pc /\ FinalDone) =>
            /\ Returns
            /\ \A sr \in session_result' : sr.end_reason = "final_done_token_seen"]_vars
    /\ [][(pc = "end_check" /\ pc' # pc /\ BudgetReached /\ ~FinalDone) =>
            /\ Returns
            /\ \A sr \in session_result' : sr.end_reason = "time_budget_reached"]_vars
    /\ [][Returns =>
            \A sr \in session_result' :
                /\ sr.end_reason = "worker_pane_dead" <=> pc = "liveness"
                /\ sr.end_reason = "final_done_token_seen" <=> (pc = "end_check" /\ FinalDone)
                /\ sr.end_reason = "time_budget_reached"
                      <=> (pc = "end_check" /\ ~FinalDone /\ BudgetReached)]_vars

\* the liveness check of an iteration in which the pane is dead, the final token
\* was seen after the change and the budget is exhausted
C36_Witness ==
    /\ pc = "liveness"
    /\ pane = "dead"
    /\ FinalDone
    /\ BudgetReached

\* positions of main() after its finally block
AfterFinally == {"post_run", "run_scoring", "validity", "done", "exit_error"}

\* C37: once the session exists, it is killed on every path out of the driver,
\* normal return and fatal abort alike, unless keep-tmux-session is set; the
\* kill happens after the driver has stopped and before any test, analyzer
\* or scoring step that follows the run
C37_SessionKilledOnEveryPath ==
    /\ [](pc \in AfterFinally =>
            /\ keep_tmux_session # {}
            /\ session_killed <=> keep_tmux_session = {FALSE})
    /\ [](pc \notin AfterFinally => ~session_killed /\ score_in = {} /\ report_in = {})
    /\ []((score_in # {} \/ report_in # {} \/ report # {}) => pc \in AfterFinally)
    /\ [][(pc \notin AfterFinally /\ pc' \in AfterFinally) => pc = "finally"]_vars
    /\ [][(session_killed' /\ ~session_killed) =>
            /\ pc = "finally"
            /\ raised \/ session_result # {}
            /\ tmux_step' = << [cmd |-> "kill_session", ok |-> TRUE] >>
               \/ tmux_step' = << [cmd |-> "kill_session", ok |-> FALSE] >>]_vars

\* the driver aborted before it sent the worker command, and the session was killed
C37_Witness ==
    /\ pc = "exit_error"
    /\ raised
    /\ session_result = {}
    /\ session_killed
    /\ keep_tmux_session = {FALSE}

\* C38: a report is written only when the driver returned a SessionResult: if
\* drive_worker_session aborts, no test is run, no score is computed and no
\* report is produced, so no written report carries missing_session_result
C38_NoReportWithoutSessionResult ==
    /\ pc \in {"run_scoring", "validity", "done"} => session_result # {} /\ ~raised
    /\ (score_in # {} \/ report_in # {} \/ score_report # {} \/ report # {})
          => session_result # {} /\ ~raised
    /\ pc = "exit_error" =>
          /\ raised
          /\ score_in = {} /\ report_in = {} /\ score_report = {} /\ report = {}
          /\ return_code = -1
          /\ ~ENABLED RunTestsAndCollect /\ ~ENABLED RunScoring /\ ~ENABLED WriteReport
    /\ \A r \in report :
          /\ r.checks.session_result_present
          /\ "missing_session_result" \notin Reasons(r)

\* the change prompt could not be sent: the driver aborted in its main loop and
\* main() was left without a report
C38_Witness ==
    /\ pc = "exit_error"
    /\ session_result = {}
    /\ report = {}
    /\ Len(commands_log) >= Len(SetupOrder)

IsProbeEvent(event) == event.type = "public_probe"

\* the public_probe events of the command log, in the order of the log
ProbesLogged == SelectSeq(commands_log, IsProbeEvent)

SomePassed(outcomes) == \E i \in 1..Len(outcomes) : outcomes[i].passed

\* C39: each executed probe adds exactly one outcome to probe_results and exactly
\* one public_probe event to the command log, in the same order;
\* public_probe_pass is true iff at least one recorded outcome has passed=true,
\* and once true it stays true; the SessionResult returns both as they are
C39_ProbeOutcomesRecorded ==
    /\ [](pc \in LoopPcs =>
            /\ probe_results = ProbesLogged
            /\ public_probe_pass <=> SomePassed(probe_results))
    /\ [](\A sr \in session_result :
            /\ sr.probe_results = ProbesLogged
            /\ sr.public_probe_pass <=> SomePassed(sr.probe_results))
    /\ [][(pc = "probe_wait" /\ pc' # pc) =>
            /\ Len(probe_results') = Len(probe_results) + 1
            /\ SubSeq(probe_results', 1, Len(probe_results)) = probe_results
            /\ Len(commands_log') = Len(commands_log) + 1
            /\ commands_log'[Len(commands_log')] = probe_results'[Len(probe_results')]]_vars
    /\ [][(pc \in LoopPcs /\ pc' \in LoopPcs /\ pc # "probe_wait") =>
            probe_results' = probe_results]_vars
    /\ [][(pc \in LoopPcs /\ pc' \in LoopPcs /\ public_probe_pass) => public_probe_pass']_vars

\* a probe passed and a later one failed: the flag is still set
C39_Witness ==
    /\ pc \in LoopPcs
    /\ Len(probe_results) >= 2
    /\ probe_results[1].passed
    /\ ~probe_results[2].passed
    /\ public_probe_pass
    /\ probe_results = ProbesLogged

\* C40: no report carries the invalid reason missing_hidden_test_command: when
\* hidden tests are required, neither --hidden-test-cmd nor the objective gives
\* a command and missing hidden tests are not allowed, main() returns 2 at its
\* check and nothing of the run (session, command log, session result, score,
\* report) ever exists; only that check returns 2
HiddenCommandUnset ==
    /\ hidden_config.hidden_tests_required
    /\ strip_cmd(hidden_config.hidden_test_cmd) = << >>
    /\ hidden_config.hidden_test_command = << >>
    /\ ~hidden_config.allow_missing_hidden_tests

C40_NoMissingHiddenCommandReport ==
    /\ \A r \in report : "missing_hidden_test_command" \notin Reasons(r)
    /\ HiddenCommandUnset =>
         /\ pc \in {"hidden_check", "exit_early"}
         /\ pane = "none" /\ ~session_killed /\ commands_log = << >>
         /\ session_result = {} /\ score_report = {} /\ report = {}
    /\ pc = "exit_early" => HiddenCommandUnset /\ return_code = 2
    /\ return_code = 2 => pc = "exit_early"
    /\ report # {} => return_code = 0

\* a blank --hidden-test-cmd with no command in the objective ended the program
C40_Witness ==
    /\ pc = "exit_early"
    /\ return_code = 2
    /\ hidden_config.hidden_test_cmd = << "_" >>

====
